---- MODULE Spec2Model ----
(***************************************************************************)
(* Model of src/src/SkeletonViewer.tsx: the skeleton viewer's scene state, *)
(* the animation tick (animate), the UI handlers and the spritesheet baker *)
(* (exportSpritesheet).                                                    *)
(*                                                                         *)
(* Numbers.  Euler rotations are kept in hundredths of a radian (integers),*)
(* durations and elapsed time in milliseconds, scales as binary64 doubles  *)
(* <<hi, lo, e>>.  The tick adds 0.016 s; the exact quotient used here and *)
(* the double-precision quotient of the code select the same frame for the *)
(* first 1124 ticks of either clip, far beyond the tick bounds below.      *)
(***************************************************************************)
EXTENDS Integers, Sequences, FiniteSets, TLC

(***************************************************************************)
(* Bounds of the model (not program constants).                            *)
(***************************************************************************)
\* ticks of the animation loop explored by Spec
MaxTicks == 2
\* ticks of the animation loop explored by SpecTime
MaxLongTicks == 140
\* largest cell edge explored by SpecFlip
MaxFlipSize == 4
\* longest skeleton definition, other than SAMPLE_SKELETON, built by SpecBuild
MaxBones == 3
\* most frames, and most entries per frame, of the clips other than the
\* shipped ones evaluated by SpecClip, and ticks SpecClip runs on a clip
MaxClipFrames == 2
MaxEntries == 2
MaxClipTicks == 3

(***************************************************************************)
(* Program data.                                                           *)
(***************************************************************************)
SAMPLE_SKELETON ==
  << [name |-> "root", parent |-> "null"],
     [name |-> "spine", parent |-> "root"],
     [name |-> "chest", parent |-> "spine"],
     [name |-> "neck", parent |-> "chest"],
     [name |-> "head", parent |-> "neck"],
     [name |-> "shoulder_L", parent |-> "chest"],
     [name |-> "upper_arm_L", parent |-> "shoulder_L"],
     [name |-> "forearm_L", parent |-> "upper_arm_L"],
     [name |-> "hand_L", parent |-> "forearm_L"],
     [name |-> "shoulder_R", parent |-> "chest"],
     [name |-> "upper_arm_R", parent |-> "shoulder_R"],
     [name |-> "forearm_R", parent |-> "upper_arm_R"],
     [name |-> "hand_R", parent |-> "forearm_R"],
     [name |-> "hip_L", parent |-> "root"],
     [name |-> "thigh_L", parent |-> "hip_L"],
     [name |-> "shin_L", parent |-> "thigh_L"],
     [name |-> "foot_L", parent |-> "shin_L"],
     [name |-> "hip_R", parent |-> "root"],
     [name |-> "thigh_R", parent |-> "hip_R"],
     [name |-> "shin_R", parent |-> "thigh_R"],
     [name |-> "foot_R", parent |-> "shin_R"] >>

\* the frames of WALK_ANIMATION, each the entries of its object literal in
\* source order
WALK_FRAMES ==
  <<
     << [bone |-> "hip_L", rotation |-> <<-24, 0, 0>>],
        [bone |-> "thigh_L", rotation |-> <<102, 0, 0>>],
        [bone |-> "shin_L", rotation |-> <<0, 0, 0>>],
        [bone |-> "hip_R", rotation |-> <<-26, 0, 0>>],
        [bone |-> "thigh_R", rotation |-> <<21, 0, 0>>],
        [bone |-> "shin_R", rotation |-> <<-9, 0, 0>>],
        [bone |-> "shoulder_L", rotation |-> <<-16, 0, 0>>],
        [bone |-> "forearm_L", rotation |-> <<-25, 0, 0>>],
        [bone |-> "shoulder_R", rotation |-> <<-14, 0, 0>>],
        [bone |-> "forearm_R", rotation |-> <<-24, 0, 0>>],
        [bone |-> "spine", rotation |-> <<0, 1, 0>>] >>,
     << [bone |-> "hip_L", rotation |-> <<-53, 0, 0>>],
        [bone |-> "thigh_L", rotation |-> <<99, 0, 0>>],
        [bone |-> "shin_L", rotation |-> <<-17, 0, 0>>],
        [bone |-> "hip_R", rotation |-> <<-11, 0, 0>>],
        [bone |-> "thigh_R", rotation |-> <<13, 0, 0>>],
        [bone |-> "shin_R", rotation |-> <<-13, 0, 0>>],
        [bone |-> "shoulder_L", rotation |-> <<-7, 0, 0>>],
        [bone |-> "forearm_L", rotation |-> <<-22, 0, 0>>],
        [bone |-> "shoulder_R", rotation |-> <<-32, 0, 0>>],
        [bone |-> "forearm_R", rotation |-> <<-30, 0, 0>>],
        [bone |-> "spine", rotation |-> <<0, -2, 0>>] >>,
     << [bone |-> "hip_L", rotation |-> <<-53, 0, 0>>],
        [bone |-> "thigh_L", rotation |-> <<24, 0, 0>>],
        [bone |-> "shin_L", rotation |-> <<-20, 0, 0>>],
        [bone |-> "hip_R", rotation |-> <<1, 0, 0>>],
        [bone |-> "thigh_R", rotation |-> <<14, 0, 0>>],
        [bone |-> "shin_R", rotation |-> <<-19, 0, 0>>],
        [bone |-> "shoulder_L", rotation |-> <<1, 0, 0>>],
        [bone |-> "forearm_L", rotation |-> <<-20, 0, 0>>],
        [bone |-> "shoulder_R", rotation |-> <<-32, 0, 0>>],
        [bone |-> "forearm_R", rotation |-> <<-30, 0, 0>>],
        [bone |-> "spine", rotation |-> <<0, -3, 0>>] >>,
     << [bone |-> "hip_L", rotation |-> <<-49, 0, 0>>],
        [bone |-> "thigh_L", rotation |-> <<33, 0, 0>>],
        [bone |-> "shin_L", rotation |-> <<-5, 0, 0>>],
        [bone |-> "hip_R", rotation |-> <<7, 0, 0>>],
        [bone |-> "thigh_R", rotation |-> <<42, 0, 0>>],
        [bone |-> "shin_R", rotation |-> <<-21, 0, 0>>],
        [bone |-> "shoulder_L", rotation |-> <<4, 0, 0>>],
        [bone |-> "forearm_L", rotation |-> <<-21, 0, 0>>],
        [bone |-> "shoulder_R", rotation |-> <<-29, 0, 0>>],
        [bone |-> "forearm_R", rotation |-> <<-29, 0, 0>>],
        [bone |-> "spine", rotation |-> <<0, -2, 0>>] >>,
     << [bone |-> "hip_L", rotation |-> <<-32, 0, 0>>],
        [bone |-> "thigh_L", rotation |-> <<39, 0, 0>>],
        [bone |-> "shin_L", rotation |-> <<-11, 0, 0>>],
        [bone |-> "hip_R", rotation |-> <<-23, 0, 0>>],
        [bone |-> "thigh_R", rotation |-> <<98, 0, 0>>],
        [bone |-> "shin_R", rotation |-> <<5, 0, 0>>],
        [bone |-> "shoulder_L", rotation |-> <<-14, 0, 0>>],
        [bone |-> "forearm_L", rotation |-> <<-24, 0, 0>>],
        [bone |-> "shoulder_R", rotation |-> <<-19, 0, 0>>],
        [bone |-> "forearm_R", rotation |-> <<-26, 0, 0>>],
        [bone |-> "spine", rotation |-> <<0, 1, 0>>] >>,
     << [bone |-> "hip_L", rotation |-> <<-12, 0, 0>>],
        [bone |-> "thigh_L", rotation |-> <<27, 0, 0>>],
        [bone |-> "shin_L", rotation |-> <<-15, 0, 0>>],
        [bone |-> "hip_R", rotation |-> <<-48, 0, 0>>],
        [bone |-> "thigh_R", rotation |-> <<73, 0, 0>>],
        [bone |-> "shin_R", rotation |-> <<-10, 0, 0>>],
        [bone |-> "shoulder_L", rotation |-> <<-29, 0, 0>>],
        [bone |-> "forearm_L", rotation |-> <<-29, 0, 0>>],
        [bone |-> "shoulder_R", rotation |-> <<-7, 0, 0>>],
        [bone |-> "forearm_R", rotation |-> <<-22, 0, 0>>],
        [bone |-> "spine", rotation |-> <<0, 2, 0>>] >>,
     << [bone |-> "hip_L", rotation |-> <<2, 0, 0>>],
        [bone |-> "thigh_L", rotation |-> <<29, 0, 0>>],
        [bone |-> "shin_L", rotation |-> <<-23, 0, 0>>],
        [bone |-> "hip_R", rotation |-> <<-41, 0, 0>>],
        [bone |-> "thigh_R", rotation |-> <<1, 0, 0>>],
        [bone |-> "shin_R", rotation |-> <<-19, 0, 0>>],
        [bone |-> "shoulder_L", rotation |-> <<-25, 0, 0>>],
        [bone |-> "forearm_L", rotation |-> <<-27, 0, 0>>],
        [bone |-> "shoulder_R", rotation |-> <<1, 0, 0>>],
        [bone |-> "forearm_R", rotation |-> <<-20, 0, 0>>],
        [bone |-> "spine", rotation |-> <<0, 3, 0>>] >>,
     << [bone |-> "hip_L", rotation |-> <<4, 0, 0>>],
        [bone |-> "thigh_L", rotation |-> <<54, 0, 0>>],
        [bone |-> "shin_L", rotation |-> <<-25, 0, 0>>],
        [bone |-> "hip_R", rotation |-> <<-41, 0, 0>>],
        [bone |-> "thigh_R", rotation |-> <<24, 0, 0>>],
        [bone |-> "shin_R", rotation |-> <<-3, 0, 0>>],
        [bone |-> "shoulder_L", rotation |-> <<-25, 0, 0>>],
        [bone |-> "forearm_L", rotation |-> <<-27, 0, 0>>],
        [bone |-> "shoulder_R", rotation |-> <<2, 0, 0>>],
        [bone |-> "forearm_R", rotation |-> <<-20, 0, 0>>],
        [bone |-> "spine", rotation |-> <<0, 2, 0>>] >>
  >>

\* the frames of IDLE_ANIMATION
IDLE_FRAMES ==
  <<
     << [bone |-> "chest", rotation |-> <<0, 5, 0>>],
        [bone |-> "upper_arm_L", rotation |-> <<0, 0, 10>>],
        [bone |-> "upper_arm_R", rotation |-> <<0, 0, -10>>] >>,
     << [bone |-> "chest", rotation |-> <<0, 0, 0>>],
        [bone |-> "upper_arm_L", rotation |-> <<0, 0, 0>>],
        [bone |-> "upper_arm_R", rotation |-> <<0, 0, 0>>] >>,
     << [bone |-> "chest", rotation |-> <<0, -5, 0>>],
        [bone |-> "upper_arm_L", rotation |-> <<0, 0, -10>>],
        [bone |-> "upper_arm_R", rotation |-> <<0, 0, 10>>] >>,
     << [bone |-> "chest", rotation |-> <<0, 0, 0>>],
        [bone |-> "upper_arm_L", rotation |-> <<0, 0, 0>>],
        [bone |-> "upper_arm_R", rotation |-> <<0, 0, 0>>] >>
  >>

WALK_ANIMATION == [name |-> "Walk", duration |-> 1750, frames |-> WALK_FRAMES]

IDLE_ANIMATION == [name |-> "Idle", duration |-> 2000, frames |-> IDLE_FRAMES]

\* camera positions for the 4 directions, in tenths
DIRECTIONS ==
  << [name |-> "front", pos |-> <<0, 15, 40>>],
     [name |-> "right", pos |-> <<40, 15, 0>>],
     [name |-> "back", pos |-> <<0, 15, -40>>],
     [name |-> "left", pos |-> <<-40, 15, 0>>] >>

\* body size variants; scaleY, scaleXZ in hundredths, cameraY in tenths
BODY_VARIANTS ==
  << [name |-> "tall", scaleY |-> 112, scaleXZ |-> 95, cameraY |-> 16],
     [name |-> "normal", scaleY |-> 92, scaleXZ |-> 100, cameraY |-> 14],
     [name |-> "short", scaleY |-> 78, scaleXZ |-> 105, cameraY |-> 12] >>

\* const frameSize = 64 in exportSpritesheet
frameSize == 64

\* animationTimeRef.current += 0.016, in milliseconds
TickMs == 16


(***************************************************************************)
(* Scene objects.                                                          *)
(***************************************************************************)
\* keys of the boneObjects map after the build loop
boneObjects == {SAMPLE_SKELETON[i].name : i \in 1..Len(SAMPLE_SKELETON)}

\* keys of BODY_PARTS: createBodyPartMesh returns null for any other bone
BODY_PARTS ==
  {"root", "spine", "chest", "neck", "head",
   "shoulder_L", "shoulder_R", "upper_arm_L", "upper_arm_R",
   "forearm_L", "forearm_R", "hand_L", "hand_R",
   "hip_L", "hip_R", "thigh_L", "thigh_R", "shin_L", "shin_R",
   "foot_L", "foot_R"}

\* the GridHelper added to the scene
gridHelper == <<"grid", "scene">>

\* one debug sphere per bone
skeletonMeshes == {<<"skeleton", b>> : b \in boneObjects}

\* one body mesh per bone that has a BODY_PARTS entry
bodyMeshes == {<<"body", b>> : b \in boneObjects \cap BODY_PARTS}

\* one THREE.Line per bone whose parent is a built bone
boneLines ==
  {<<"line", SAMPLE_SKELETON[i].name>> :
     i \in {j \in 1..Len(SAMPLE_SKELETON) :
              SAMPLE_SKELETON[j].parent \in boneObjects}}

\* every object of the scene graph that carries a visible flag of interest
Drawables == {gridHelper} \cup skeletonMeshes \cup bodyMeshes \cup boneLines

\* obj instanceof THREE.Line: true of the bone connectors and of the
\* GridHelper (GridHelper extends LineSegments extends Line)
InstanceOfLine(obj) == obj[1] \in {"line", "grid"}

\* obj instanceof THREE.GridHelper
InstanceOfGridHelper(obj) == obj[1] = "grid"

\* the array filled by scene.traverse in exportSpritesheet
lines == {obj \in Drawables : InstanceOfLine(obj)}

(***************************************************************************)
(* Arithmetic helpers.                                                     *)
(***************************************************************************)
RECURSIVE GCD(_, _)
GCD(a, b) == IF b = 0 THEN a ELSE GCD(b, a % b)

\* the fraction n/d in lowest terms
Rat(n, d) == <<n \div GCD(n, d), d \div GCD(n, d)>>

ZeroRotation == <<0, 0, 0>>

(***************************************************************************)
(* Number arithmetic of the scales.  The scale factors are JavaScript      *)
(* Numbers (IEEE 754 binary64): a literal denotes the nearest double, and  *)
(* / and * round their exact result to the nearest double, ties to even.   *)
(* A natural number is a little-endian sequence of digits to the base      *)
(* 2^15; a double is <<hi, lo, e>> with value (hi * 2^27 + lo) * 2^e and   *)
(* a 53-bit mantissa hi * 2^27 + lo.                                       *)
(***************************************************************************)
Base == 32768

RECURSIVE NatDigits(_)
NatDigits(n) ==
  IF n = 0 THEN <<>> ELSE <<n % Base>> \o NatDigits(n \div Base)

RECURSIVE Trim(_)
Trim(x) ==
  IF x = <<>> THEN <<>>
  ELSE IF x[Len(x)] = 0 THEN Trim(SubSeq(x, 1, Len(x) - 1))
  ELSE x

RECURSIVE AddDigits(_, _, _)
AddDigits(x, y, c) ==
  IF x = <<>> /\ y = <<>>
    THEN IF c = 0 THEN <<>> ELSE <<c>>
    ELSE <<((IF x = <<>> THEN 0 ELSE Head(x))
              + (IF y = <<>> THEN 0 ELSE Head(y)) + c) % Base>>
         \o AddDigits(IF x = <<>> THEN <<>> ELSE Tail(x),
                      IF y = <<>> THEN <<>> ELSE Tail(y),
                      ((IF x = <<>> THEN 0 ELSE Head(x))
                         + (IF y = <<>> THEN 0 ELSE Head(y)) + c) \div Base)

\* x - y - brw for x >= y + brw, not trimmed
RECURSIVE SubRaw(_, _, _)
SubRaw(x, y, brw) ==
  IF x = <<>> THEN <<>>
  ELSE <<(Head(x) - (IF y = <<>> THEN 0 ELSE Head(y)) - brw) % Base>>
       \o SubRaw(Tail(x), IF y = <<>> THEN <<>> ELSE Tail(y),
                 IF Head(x) - (IF y = <<>> THEN 0 ELSE Head(y)) - brw < 0
                   THEN 1 ELSE 0)

SubDigits(x, y) == Trim(SubRaw(x, y, 0))

RECURSIVE LessFrom(_, _, _)
LessFrom(x, y, i) ==
  IF i = 0 THEN FALSE
  ELSE IF x[i] # y[i] THEN x[i] < y[i]
  ELSE LessFrom(x, y, i - 1)

\* x < y
LessDigits(x, y) ==
  IF Len(x) # Len(y) THEN Len(x) < Len(y) ELSE LessFrom(x, y, Len(x))

\* x * s + c for a single digit s (or a power of two up to Base)
RECURSIVE MulSmall(_, _, _)
MulSmall(x, s, c) ==
  IF x = <<>>
    THEN IF c = 0 THEN <<>> ELSE <<c>>
    ELSE <<(Head(x) * s + c) % Base>>
         \o MulSmall(Tail(x), s, (Head(x) * s + c) \div Base)

\* x * 2^k
Shl(x, k) ==
  IF x = <<>> THEN <<>>
  ELSE [i \in 1..(k \div 15) |-> 0] \o MulSmall(x, 2 ^ (k % 15), 0)

RECURSIVE MulDigits(_, _)
MulDigits(x, y) ==
  IF x = <<>> \/ y = <<>> THEN <<>>
  ELSE Trim(AddDigits(MulSmall(y, Head(x), 0),
                      <<0>> \o MulDigits(Tail(x), y), 0))

\* quotient and remainder of n by d, for n < d * 2^(k+1); the quotient is
\* collected in the two halves hi (bits 27 and up) and lo (bits 0..26)
RECURSIVE DivBits(_, _, _, _, _)
DivBits(n, d, k, hi, lo) ==
  IF k < 0 THEN [hi |-> hi, lo |-> lo, r |-> n]
  ELSE IF LessDigits(n, Shl(d, k)) THEN DivBits(n, d, k - 1, hi, lo)
  ELSE IF k >= 27
    THEN DivBits(SubDigits(n, Shl(d, k)), d, k - 1, hi + 2 ^ (k - 27), lo)
    ELSE DivBits(SubDigits(n, Shl(d, k)), d, k - 1, hi, lo + 2 ^ k)

\* scale n / d * 2^e so that 2^52 <= n / d < 2^53
RECURSIVE Normal(_, _, _)
Normal(n, d, e) ==
  IF LessDigits(n, Shl(d, 52)) THEN Normal(Shl(n, 1), d, e - 1)
  ELSE IF ~LessDigits(n, Shl(d, 53)) THEN Normal(n, Shl(d, 1), e + 1)
  ELSE [n |-> n, d |-> d, e |-> e]

\* q + 1 for a 53-bit mantissa q, renormalised when it reaches 2^53
RoundUp(hi, lo, e) ==
  IF lo + 1 < 2 ^ 27 THEN <<hi, lo + 1, e>>
  ELSE IF hi + 1 < 2 ^ 26 THEN <<hi + 1, 0, e>>
  ELSE <<2 ^ 25, 0, e + 1>>

\* the double nearest to n / d * 2^e (n, d > 0), ties to even
RoundRatio(n, d, e) ==
  LET nm == Normal(n, d, e)
      qr == DivBits(nm.n, nm.d, 52, 0, 0)
      twice == Shl(qr.r, 1)
      up == LessDigits(nm.d, twice) \/ (twice = nm.d /\ qr.lo % 2 = 1)
  IN IF up THEN RoundUp(qr.hi, qr.lo, nm.e) ELSE <<qr.hi, qr.lo, nm.e>>

\* the mantissa of a double, as digits: lo, then hi * 2^27
Mantissa(x) == AddDigits(NatDigits(x[2]), Shl(NatDigits(x[1]), 27), 0)

\* the Number denoted by the decimal literal n / d
Number(n, d) == RoundRatio(NatDigits(n), NatDigits(d), 0)

\* x / y
Divide(x, y) == RoundRatio(Mantissa(x), Mantissa(y), x[3] - y[3])

\* x * y
Times(x, y) ==
  RoundRatio(MulDigits(Mantissa(x), Mantissa(y)), <<1>>, x[3] + y[3])

One == Number(1, 1)

\* the scale literals of BODY_VARIANTS, in hundredths
ScaleLiterals ==
  {BODY_VARIANTS[i].scaleY : i \in DOMAIN BODY_VARIANTS}
    \cup {BODY_VARIANTS[i].scaleXZ : i \in DOMAIN BODY_VARIANTS}

\* the Number of each scale literal
NumberOf == [p \in ScaleLiterals |-> Number(p, 100)]

\* 1 / literal, as the code computes invScaleX, invScaleY, invScaleZ
ReciprocalOf == [p \in ScaleLiterals |-> Divide(One, NumberOf[p])]

\* every Number a scale component can hold
ScaleValues ==
  {One} \cup {NumberOf[p] : p \in ScaleLiterals}
        \cup {ReciprocalOf[p] : p \in ScaleLiterals}

\* x * y for the scale values
ProductOf == [x \in ScaleValues, y \in ScaleValues |-> Times(x, y)]

\* a proxy's world scale under an unrotated chain of unit-scale bones: the
\* element-wise product of the root bone's scale and the proxy's own scale
WorldScale(root, proxy) ==
  <<ProductOf[root[1], proxy[1]], ProductOf[root[2], proxy[2]],
    ProductOf[root[3], proxy[3]]>>

\* the largest double below 1, 1 - 2^-53
BelowOne == <<2 ^ 26 - 1, 2 ^ 27 - 1, -53>>

UnitScale == <<One, One, One>>

\* (variant.scaleXZ, variant.scaleY, variant.scaleXZ)
VariantScale(variant) ==
  <<NumberOf[variant.scaleXZ], NumberOf[variant.scaleY],
    NumberOf[variant.scaleXZ]>>

\* variant of InvScale that does not invert
InvScaleSame(variant) ==
  <<NumberOf[variant.scaleXZ], NumberOf[variant.scaleY],
    NumberOf[variant.scaleXZ]>>

\* (1 / variant.scaleXZ, 1 / variant.scaleY, 1 / variant.scaleXZ)
InvScale(variant) ==
  <<ReciprocalOf[variant.scaleXZ], ReciprocalOf[variant.scaleY],
    ReciprocalOf[variant.scaleXZ]>>

(***************************************************************************)
(* Pose evaluation and frame selection.                                    *)
(***************************************************************************)
AnimOf(name) == IF name = "Walk" THEN WALK_ANIMATION ELSE IDLE_ANIMATION

\* variant of FrameIndex that takes the period to be one second instead of
\* anim.duration
FrameIndexPerSecond(t, anim) ==
  ((t * Len(anim.frames)) \div 1000) % Len(anim.frames)

\* variant of FrameIndex that forgets the final % anim.frames.length
FrameIndexNoWrap(t, anim) == (t * Len(anim.frames)) \div anim.duration

\* Math.floor((t / anim.duration) * anim.frames.length) % anim.frames.length
FrameIndex(t, anim) ==
  ((t * Len(anim.frames)) \div anim.duration) % Len(anim.frames)

\* variant of ResetRotations that leaves the previous rotations in place
ResetRotationsNone(rot) == rot

\* Object.values(boneObjects).forEach(bone => bone.rotation.set(0, 0, 0))
ResetRotations(rot) == [b \in DOMAIN rot |-> ZeroRotation]

\* variant of ApplyEntries without the `if (bone)` guard: an entry for a
\* name that is not a key of boneObjects creates one
RECURSIVE ApplyEntriesUnguarded(_, _, _)
ApplyEntriesUnguarded(rot, frame, i) ==
  IF i > Len(frame) THEN rot
  ELSE ApplyEntriesUnguarded(
         [b \in DOMAIN rot \cup {frame[i].bone} |->
            IF b = frame[i].bone THEN frame[i].rotation ELSE rot[b]],
         frame, i + 1)

\* Object.entries(frame).forEach(...): entries i..Len(frame) applied in order
RECURSIVE ApplyEntries(_, _, _)
ApplyEntries(rot, frame, i) ==
  IF i > Len(frame) THEN rot
  ELSE ApplyEntries(IF frame[i].bone \in DOMAIN rot
                      THEN [rot EXCEPT ![frame[i].bone] = frame[i].rotation]
                      ELSE rot,
                    frame, i + 1)

\* variant of ApplyPose that adds each entry to the bone's current rotation
\* instead of resetting and setting it
RECURSIVE AddEntries(_, _, _)
AddEntries(rot, frame, i) ==
  IF i > Len(frame) THEN rot
  ELSE AddEntries(IF frame[i].bone \in DOMAIN rot
                    THEN [rot EXCEPT ![frame[i].bone] =
                            [k \in 1..3 |-> @[k] + frame[i].rotation[k]]]
                    ELSE rot,
                  frame, i + 1)

ApplyPoseAdditive(rot, frame) == AddEntries(rot, frame, 1)

\* reset all rotations, then apply the frame's rotations
ApplyPose(rot, frame) == ApplyEntries(ResetRotations(rot), frame, 1)

\* variant of ApplyRootScale that scales every bone node
ApplyScaleAll(sc, variant) == [b \in DOMAIN sc |-> VariantScale(variant)]

\* rootBone.scale.set(...) of the variant
ApplyRootScale(sc, variant) == [sc EXCEPT !["root"] = VariantScale(variant)]

\* bodyMeshesRef.current.forEach(mesh => mesh.scale.set(inv...))
CounterScale(msc, variant) == [m \in DOMAIN msc |-> InvScale(variant)]

(***************************************************************************)
(* The vertical flip of the compositor.  Buffers are functions on          *)
(* 0..size*size*4-1.                                                       *)
(***************************************************************************)
\* srcIdx = ((size - 1 - y) * size + x) * 4
SrcIdx(size, x, y) == ((size - 1 - y) * size + x) * 4

\* dstIdx = (y * size + x) * 4
DstIdx(size, x, y) == (y * size + x) * 4

\* variant of FlipY that copies without flipping (srcIdx = dstIdx)
FlipYNone(buf, size) == [d \in 0..(size * size * 4 - 1) |-> buf[d]]

\* the copy loop of exportSpritesheet: imageData.data[dstIdx + c] =
\* pixelBuffer[srcIdx + c] for y, x in 0..size-1 and c in 0..3
FlipY(buf, size) ==
  [d \in 0..(size * size * 4 - 1) |->
     LET c == d % 4
         x == (d \div 4) % size
         y == (d \div 4) \div size
     IN buf[SrcIdx(size, x, y) + c]]

\* the copy loop of updatePixelView: the same indices, with ?? defaults
FlipYPixelView(buf, size) ==
  [d \in 0..(size * size * 4 - 1) |->
     LET c == d % 4
         x == (d \div 4) % size
         y == (d \div 4) \div size
         s == SrcIdx(size, x, y) + c
     IN IF s \in DOMAIN buf THEN buf[s] ELSE IF c = 3 THEN 255 ELSE 0]

(***************************************************************************)
(* State.                                                                  *)
(***************************************************************************)
VARIABLES
  currentAnimation,   \* React state: "Walk" or "Idle"
  currentVariant,     \* React state: index into BODY_VARIANTS (0-based)
  currentVariantRef,  \* currentVariantRef.current
  showSkin,           \* React state of the Skin checkbox
  currentFrame,       \* React state: last frame index selected by animate
  animationTime,      \* animationTimeRef.current, in milliseconds
  rotation,           \* bone name -> bone.rotation
  scale,              \* bone name -> bone.scale
  meshScale,          \* body mesh -> mesh.scale
  visible,            \* drawable -> .visible
  background,         \* scene.background
  pc,                 \* position of exportSpritesheet: idle, loop, restore
  varIdx, dirIdx, frameIdx,   \* loop counters of exportSpritesheet
  saved,              \* prevGridVisible, prevSkeletonVisible,
                      \* prevLineVisible, prevBackground, origScale
  offCamera,          \* position and look-at target of the offscreen camera
  canvas,             \* compositeCanvas: width, height, cells put so far
  metadata,           \* the metadata object of the last completed bake
  bakeEntry,          \* history: the shared state when the last bake began
  bakeOutcome,        \* history: how the last exportSpritesheet call ended
  posed,              \* history: the (clip, frame) last applied to the bones
  rendered,           \* history: the scene as the last renderer.render call saw it
  bones,              \* the skeleton definition given to the build loops
  buildPc,            \* "off", "bones" (first forEach), "lines" (second), "done"
  boneIdx,            \* bones processed by the first forEach
  boneParent,         \* boneObjects so far: bone name -> what its Object3D hangs on
  sphereList,         \* the array skeletonMeshes: the bone of each debug sphere
  bodyMeshList,       \* the array bodyMeshes: the bone of each body mesh
  boneLineList,       \* the THREE.Line objects: <<parent bone, child bone>>
  animClip,           \* the clip object the tick and the baker evaluate in SpecClip
  animTime,           \* animationTimeRef.current of that evaluation, milliseconds
  animPose,           \* the bone rotations of that evaluation
  frameIndex,         \* the value last given to setCurrentFrame (NoFrame: none yet)
  animPosed,          \* index of the frame last applied to the bones (NoFrame: none)
  animCells,          \* iterations of the baker's innermost loop (NoFrame: no bake)
  showPixelView,      \* React state of the Pixel View checkbox
  mounted,            \* the component is mounted and its frame loop is followed
  rafQueue,           \* the browser's pending requestAnimationFrame callbacks
  animationId,        \* animationId of the live scene effect's closure
  pixelAnimId,        \* pixelAnimId of the live pixel-view effect's closure
  frameCallbacks,     \* callbacks of the frame being run, not yet called
  flipSize,           \* SpecFlip: edge of the cell
  pixelBuffer,        \* SpecFlip: the read-back buffer
  imageData           \* SpecFlip: the ImageData written by the copy loop

vars ==
  <<currentAnimation, currentVariant, currentVariantRef, showSkin,
    currentFrame, animationTime, rotation, scale, meshScale, visible,
    background, pc, varIdx, dirIdx, frameIdx, saved, offCamera, canvas,
    metadata, bakeEntry, bakeOutcome, posed, rendered, flipSize,
    pixelBuffer, imageData, bones, buildPc, boneIdx, boneParent, sphereList,
    bodyMeshList, boneLineList, animClip, animTime, animPose, frameIndex,
    animPosed, animCells, showPixelView, mounted, rafQueue, animationId,
    pixelAnimId, frameCallbacks>>

sceneVars == <<rotation, scale, meshScale, visible, background>>

uiVars == <<currentAnimation, currentVariant, currentVariantRef, showSkin>>

bakeVars ==
  <<pc, varIdx, dirIdx, frameIdx, saved, offCamera, canvas, metadata,
    bakeEntry, bakeOutcome>>

flipVars == <<flipSize, pixelBuffer, imageData>>

buildVars ==
  <<bones, buildPc, boneIdx, boneParent, sphereList, bodyMeshList,
    boneLineList>>

clipVars == <<animClip, animTime, animPose, frameIndex, animPosed, animCells>>

loopVars ==
  <<showPixelView, mounted, rafQueue, animationId, pixelAnimId,
    frameCallbacks>>

\* the shared scene state a bake may touch
Snapshot ==
  [rotation |-> rotation, scale |-> scale, meshScale |-> meshScale,
   visible |-> visible, background |-> background]

NoSaved == [prevGridVisible |-> TRUE, prevSkeletonVisible |-> <<>>,
            prevLineVisible |-> <<>>, prevBackground |-> "none",
            origScale |-> UnitScale]

NoEntry == [rotation |-> <<>>, scale |-> <<>>, meshScale |-> <<>>,
            visible |-> <<>>, background |-> "none"]

NoMetadata == [spritesheet |-> <<>>, animations |-> <<>>, variants |-> <<>>,
               directions |-> <<>>]

NoCamera == [position |-> <<0, 0, 0>>, lookAt |-> <<0, 0, -1>>]

NoCanvas == [width |-> 0, height |-> 0, puts |-> <<>>]

\* The locals and outputs of an exportSpritesheet call are observable in the
\* state in which the call returns; the next event forgets them.
ForgetCall ==
  /\ varIdx' = 0
  /\ dirIdx' = 0
  /\ frameIdx' = 0
  /\ saved' = NoSaved
  /\ offCamera' = NoCamera
  /\ canvas' = NoCanvas
  /\ metadata' = NoMetadata
  /\ bakeEntry' = NoEntry
  /\ bakeOutcome' = "none"

(***************************************************************************)
(* The scene effect: build the scene, then call animate() once.            *)
(***************************************************************************)
\* the freshly built scene: new Object3D / Mesh / Line / GridHelper defaults
BuiltRotation == [b \in boneObjects |-> ZeroRotation]

BuiltScale == [b \in boneObjects |-> UnitScale]

BuiltMeshScale == [m \in bodyMeshes |-> UnitScale]

BuiltVisible == [obj \in Drawables |-> TRUE]

\* scene.background = new THREE.Color(0x1a1a1a)
BuiltBackground == "0x1a1a1a"

\* renderer.render(scene, camera) / offRenderer.render(scene, offCamera):
\* what the call reads of the scene at the moment it is made
Observe(by, rot, sc, msc, vis, bg) ==
  [by |-> by, rotation |-> rot, scale |-> sc, meshScale |-> msc,
   visible |-> vis, background |-> bg]

\* const frame = anim.frames[frameIndex]; if (!frame) return
HasFrame(animName, t) ==
  FrameIndex(t, AnimOf(animName)) + 1 \in DOMAIN AnimOf(animName).frames

\* body of animate on the bone rotations
AnimateRotation(rot, animName, t) ==
  IF HasFrame(animName, t)
    THEN ApplyPose(rot,
                   AnimOf(animName).frames[FrameIndex(t, AnimOf(animName)) + 1])
    ELSE rot

\* const variant = BODY_VARIANTS[currentVariantRef.current]; if (variant && rootBone)
HasVariant(ref) == ref + 1 \in DOMAIN BODY_VARIANTS /\ "root" \in boneObjects

\* body of animate on the bone scales
AnimateScale(sc, animName, t, ref) ==
  IF HasFrame(animName, t) /\ HasVariant(ref)
    THEN ApplyRootScale(sc, BODY_VARIANTS[ref + 1])
    ELSE sc

\* body of animate on the body-mesh scales
AnimateMeshScale(msc, animName, t, ref) ==
  IF HasFrame(animName, t) /\ HasVariant(ref)
    THEN CounterScale(msc, BODY_VARIANTS[ref + 1])
    ELSE msc

\* history: which (clip, frame) the bones were last posed with
AnimatePosed(old, animName, t) ==
  IF HasFrame(animName, t)
    THEN [clip |-> animName, frame |-> FrameIndex(t, AnimOf(animName))]
    ELSE old

\* the renderer.render(scene, camera) that ends the body of animate
AnimateRendered(old, rot, sc, msc, vis, bg, animName, t, ref) ==
  IF HasFrame(animName, t)
    THEN Observe("main", AnimateRotation(rot, animName, t),
                 AnimateScale(sc, animName, t, ref),
                 AnimateMeshScale(msc, animName, t, ref), vis, bg)
    ELSE old

\* the showSkin effect
SkinVisible(vis, skin) ==
  [obj \in DOMAIN vis |->
     IF obj \in bodyMeshes THEN skin
     ELSE IF obj \in skeletonMeshes THEN ~skin
     ELSE vis[obj]]

(***************************************************************************)
(* Init: the component after mount.  The scene effect has built the scene  *)
(* and run animate() once; the showSkin effect has run after it.           *)
(***************************************************************************)
InitMain ==
  /\ currentAnimation = "Walk"
  /\ currentVariant = 1
  /\ currentVariantRef = 1
  /\ showSkin = TRUE
  /\ animationTime = TickMs
  /\ currentFrame = FrameIndex(TickMs, WALK_ANIMATION)
  /\ rotation = AnimateRotation(BuiltRotation, "Walk", TickMs)
  /\ scale = AnimateScale(BuiltScale, "Walk", TickMs, 1)
  /\ meshScale = AnimateMeshScale(BuiltMeshScale, "Walk", TickMs, 1)
  /\ visible = SkinVisible(BuiltVisible, TRUE)
  /\ background = BuiltBackground
  /\ pc = "idle"
  /\ varIdx = 0
  /\ dirIdx = 0
  /\ frameIdx = 0
  /\ saved = NoSaved
  /\ offCamera = NoCamera
  /\ canvas = NoCanvas
  /\ metadata = NoMetadata
  /\ bakeEntry = NoEntry
  /\ bakeOutcome = "none"
  /\ posed = AnimatePosed([clip |-> "none", frame |-> 0], "Walk", TickMs)
  /\ rendered = AnimateRendered(Observe("none", <<>>, <<>>, <<>>, <<>>,
                                        "none"),
                                BuiltRotation, BuiltScale, BuiltMeshScale,
                                BuiltVisible, BuiltBackground,
                                "Walk", TickMs, 1)

\* no build loop in progress
BuildOff ==
  /\ bones = <<>>
  /\ buildPc = "off"
  /\ boneIdx = 0
  /\ boneParent = <<>>
  /\ sphereList = <<>>
  /\ bodyMeshList = <<>>
  /\ boneLineList = <<>>

\* frameIndex, animPosed, animCells: nothing selected, applied or baked yet
NoFrame == -2

\* the Number NaN as a frame index
NaN == -1

\* no clip evaluation in progress
ClipOff ==
  /\ animClip = [name |-> "none", duration |-> 0, frames |-> <<>>]
  /\ animTime = 0
  /\ animPose = <<>>
  /\ frameIndex = NoFrame
  /\ animPosed = NoFrame
  /\ animCells = NoFrame

\* no requestAnimationFrame handle: the value of animationId and pixelAnimId
\* before their first assignment
NoHandle == 0

\* the frame scheduling is not followed
LoopOff ==
  /\ showPixelView = FALSE
  /\ mounted = FALSE
  /\ rafQueue = <<>>
  /\ animationId = NoHandle
  /\ pixelAnimId = NoHandle
  /\ frameCallbacks = <<>>

Init ==
  /\ InitMain
  /\ flipSize = 0
  /\ pixelBuffer = <<>>
  /\ imageData = <<>>
  /\ BuildOff
  /\ ClipOff
  /\ LoopOff

(***************************************************************************)
(* animate: one tick of the requestAnimationFrame loop.                    *)
(***************************************************************************)
Animate(maxTicks) ==
  /\ pc = "idle"
  /\ animationTime + TickMs <= maxTicks * TickMs
  /\ animationTime' = animationTime + TickMs
  /\ currentFrame' = FrameIndex(animationTime', AnimOf(currentAnimation))
  /\ rotation' = AnimateRotation(rotation, currentAnimation, animationTime')
  /\ scale' = AnimateScale(scale, currentAnimation, animationTime',
                           currentVariantRef)
  /\ meshScale' = AnimateMeshScale(meshScale, currentAnimation,
                                   animationTime', currentVariantRef)
  /\ posed' = AnimatePosed(posed, currentAnimation, animationTime')
  /\ rendered' = AnimateRendered(rendered, rotation, scale, meshScale,
                                 visible, background, currentAnimation,
                                 animationTime', currentVariantRef)
  /\ ForgetCall
  /\ UNCHANGED <<uiVars, visible, background, pc, flipVars, loopVars, buildVars, clipVars>>

AnimateTick == Animate(MaxTicks)

AnimateLong == Animate(MaxLongTicks)

(***************************************************************************)
(* UI handlers, each with the effects its state change triggers.           *)
(***************************************************************************)
\* Walk / Idle onClick: setCurrentAnimation(name); animationTimeRef.current = 0.
\* A changed clip re-runs the scene effect: new scene, then animate().
SwitchClip(name) ==
  /\ pc = "idle"
  /\ currentAnimation' = name
  /\ ForgetCall
  /\ IF name = currentAnimation
       THEN /\ animationTime' = 0
            /\ UNCHANGED <<currentFrame, sceneVars, posed, rendered>>
       ELSE /\ animationTime' = TickMs
            /\ currentFrame' = FrameIndex(TickMs, AnimOf(name))
            /\ rotation' = AnimateRotation(BuiltRotation, name, TickMs)
            /\ scale' = AnimateScale(BuiltScale, name, TickMs,
                                     currentVariantRef)
            /\ meshScale' = AnimateMeshScale(BuiltMeshScale, name, TickMs,
                                             currentVariantRef)
            /\ visible' = BuiltVisible
            /\ background' = BuiltBackground
            /\ posed' = AnimatePosed(posed, name, TickMs)
            /\ rendered' = AnimateRendered(rendered, BuiltRotation,
                                           BuiltScale, BuiltMeshScale,
                                           BuiltVisible, BuiltBackground,
                                           name, TickMs, currentVariantRef)
  /\ UNCHANGED <<currentVariant, currentVariantRef, showSkin, pc, flipVars, loopVars, buildVars, clipVars>>

\* Body button onClick: setCurrentVariant(idx), then the effect that copies
\* it into currentVariantRef
SetVariant(idx) ==
  /\ pc = "idle"
  /\ idx # currentVariant
  /\ currentVariant' = idx
  /\ currentVariantRef' = idx
  /\ ForgetCall
  /\ UNCHANGED <<currentAnimation, showSkin, currentFrame, animationTime,
                 sceneVars, pc, posed, rendered, flipVars, loopVars, buildVars, clipVars>>

\* Skin checkbox onChange: setShowSkin(checked), then the showSkin effect
ToggleSkin ==
  /\ pc = "idle"
  /\ showSkin' = ~showSkin
  /\ visible' = SkinVisible(visible, showSkin')
  /\ ForgetCall
  /\ UNCHANGED <<currentAnimation, currentVariant, currentVariantRef,
                 currentFrame, animationTime, rotation, scale, meshScale,
                 background, pc, posed, rendered, flipVars, loopVars, buildVars, clipVars>>

(***************************************************************************)
(* exportSpritesheet.  The call is synchronous: from its first statement   *)
(* to its return no other handler runs, so every other action is guarded   *)
(* by pc = "idle".  It is modelled in steps: ExportBegin (entry to the     *)
(* first loop), ExportFrame (one iteration of the innermost loop, with the *)
(* enclosing loops' statements when it is their first iteration) and       *)
(* ExportEnd (restoration, metadata, return).                              *)
(***************************************************************************)
numFrames == Len(WALK_ANIMATION.frames)

numDirs == Len(DIRECTIONS)

numVariants == Len(BODY_VARIANTS)

\* if (gridHelper) gridHelper.visible = false
HideGrid(vis) ==
  [obj \in DOMAIN vis |->
     IF InstanceOfGridHelper(obj) THEN FALSE ELSE vis[obj]]

\* variant of HideSkeleton that leaves the debug spheres as they are
HideSkeletonNone(vis) == vis

\* skeletonMeshes.forEach(m => m.visible = false)
HideSkeleton(vis) ==
  [obj \in DOMAIN vis |-> IF obj \in skeletonMeshes THEN FALSE ELSE vis[obj]]

\* lines.forEach(l => l.visible = false)
HideLines(vis) ==
  [obj \in DOMAIN vis |-> IF obj \in lines THEN FALSE ELSE vis[obj]]

\* lines 377-403: record the prior state, in statement order
SaveState ==
  [prevGridVisible |-> visible[gridHelper],
   prevSkeletonVisible |->
     [m \in skeletonMeshes |-> HideGrid(visible)[m]],
   prevLineVisible |->
     [l \in lines |-> HideSkeleton(HideGrid(visible))[l]],
   prevBackground |-> background,
   origScale |-> scale["root"]]

\* surface: "ok", "noWebGL" (new THREE.WebGLRenderer throws when no WebGL
\* context can be created) or "no2d" (getContext("2d") returns null)
ExportBegin(surface) ==
  /\ pc = "idle"
  /\ bakeEntry' = Snapshot
  /\ IF surface = "noWebGL"
       THEN /\ bakeOutcome' = "threw"
            /\ canvas' = NoCanvas
            /\ offCamera' = NoCamera
            /\ saved' = NoSaved
            /\ varIdx' = 0
            /\ dirIdx' = 0
            /\ frameIdx' = 0
            /\ UNCHANGED <<sceneVars, pc>>
       ELSE IF surface = "no2d"
       THEN /\ bakeOutcome' = "returned"
            /\ canvas' = [width |-> numFrames * frameSize,
                          height |-> numDirs * numVariants * frameSize,
                          puts |-> <<>>]
            /\ offCamera' = NoCamera
            /\ saved' = NoSaved
            /\ varIdx' = 0
            /\ dirIdx' = 0
            /\ frameIdx' = 0
            /\ UNCHANGED <<sceneVars, pc>>
       ELSE /\ bakeOutcome' = "running"
            /\ canvas' = [width |-> numFrames * frameSize,
                          height |-> numDirs * numVariants * frameSize,
                          puts |-> <<>>]
            /\ offCamera' = NoCamera
            /\ saved' = SaveState
            /\ visible' = HideLines(HideSkeleton(HideGrid(visible)))
            /\ background' = "null"
            /\ pc' = "loop"
            /\ varIdx' = 0
            /\ dirIdx' = 0
            /\ frameIdx' = 0
            /\ UNCHANGED <<rotation, scale, meshScale>>
  /\ metadata' = NoMetadata
  /\ UNCHANGED <<uiVars, currentFrame, animationTime, posed, rendered,
                 flipVars, loopVars, buildVars, clipVars>>

\* variant of RowIdx that multiplies by the wrong count
RowIdxByVariants(v, d) == v * numVariants + d

\* rowIdx = varIdx * numDirs + dirIdx
RowIdx(v, d) == v * numDirs + d

\* ctx.putImageData(imageData, frameIdx * frameSize, rowIdx * frameSize)
PutCell(cv, v, d, f) ==
  [cv EXCEPT !.puts = Append(@, [x |-> f * frameSize,
                                 y |-> RowIdx(v, d) * frameSize,
                                 varIdx |-> v, dirIdx |-> d,
                                 frameIdx |-> f])]

\* variant of AimCamera that looks at the world origin
AimCameraAtOrigin(variant, dir) ==
  [position |-> <<dir.pos[1], variant.cameraY, dir.pos[3]>>,
   lookAt |-> <<0, 0, 0>>]

\* offCamera.position.set(dir.pos[0], variant.cameraY, dir.pos[2]);
\* offCamera.lookAt(0, variant.cameraY - 0.1, 0)     (tenths)
AimCamera(variant, dir) ==
  [position |-> <<dir.pos[1], variant.cameraY, dir.pos[3]>>,
   lookAt |-> <<0, variant.cameraY - 1, 0>>]

\* variant of RenderIteration in which the render precedes the pose: it shows
\* the rotations the previous iteration left
RenderBeforePose(rot, sc, msc, vis, bg, frame) ==
  Observe("offscreen", rot, sc, msc, vis, bg)

\* lines 425-445 of one iteration, in statement order: reset and apply the
\* frame's rotations, scene.updateMatrixWorld(true), then
\* offRenderer.render(scene, offCamera); the render shows the posed bones
\* under the scales set at the head of the variant loop, with the visibility
\* flags and the background as they are at that moment
RenderIteration(rot, sc, msc, vis, bg, frame) ==
  Observe("offscreen", ApplyPose(rot, frame), sc, msc, vis, bg)

ExportFrame ==
  /\ pc = "loop"
  /\ LET variant == BODY_VARIANTS[varIdx + 1]
         dir == DIRECTIONS[dirIdx + 1]
         frame == WALK_ANIMATION.frames[frameIdx + 1]
         lastFrame == frameIdx + 1 = numFrames
         lastDir == dirIdx + 1 = numDirs
     IN /\ scale' = IF dirIdx = 0 /\ frameIdx = 0
                      THEN ApplyRootScale(scale, variant) ELSE scale
        /\ meshScale' = IF dirIdx = 0 /\ frameIdx = 0
                          THEN CounterScale(meshScale, variant)
                          ELSE meshScale
        /\ offCamera' = IF frameIdx = 0 THEN AimCamera(variant, dir)
                        ELSE offCamera
        /\ rotation' = ApplyPose(rotation, frame)
        /\ posed' = [clip |-> "Walk", frame |-> frameIdx]
        /\ rendered' = RenderIteration(rotation, scale', meshScale', visible,
                                        background, frame)
        /\ canvas' = PutCell(canvas, varIdx, dirIdx, frameIdx)
        /\ frameIdx' = IF lastFrame THEN 0 ELSE frameIdx + 1
        /\ dirIdx' = IF ~lastFrame THEN dirIdx
                     ELSE IF lastDir THEN 0 ELSE dirIdx + 1
        /\ varIdx' = IF lastFrame /\ lastDir THEN varIdx + 1 ELSE varIdx
        /\ pc' = IF lastFrame /\ lastDir /\ varIdx + 1 = numVariants
                   THEN "restore" ELSE "loop"
  /\ UNCHANGED <<uiVars, currentFrame, animationTime, visible, background,
                 saved, metadata, bakeEntry, bakeOutcome, flipVars, loopVars, buildVars, clipVars>>

\* lines 485-487: restore the visibility flags, in statement order
RestoreGrid(vis, sv) ==
  [obj \in DOMAIN vis |->
     IF InstanceOfGridHelper(obj) THEN sv.prevGridVisible ELSE vis[obj]]

RestoreSkeleton(vis, sv) ==
  [obj \in DOMAIN vis |->
     IF obj \in skeletonMeshes THEN sv.prevSkeletonVisible[obj]
     ELSE vis[obj]]

RestoreLines(vis, sv) ==
  [obj \in DOMAIN vis |->
     IF obj \in lines THEN sv.prevLineVisible[obj] ELSE vis[obj]]

\* rootBone.scale.copy(origScale)
RestoreRootScale(sc, sv) == [sc EXCEPT !["root"] = sv.origScale]

\* bodyMeshesRef.current.forEach(mesh => mesh.scale.set(1, 1, 1))
RestoreMeshScale(msc) == [m \in DOMAIN msc |-> UnitScale]

\* variant of Metadata whose direction table counts the rows from the bottom
\* of a variant's block
MetadataRowsReversed(cv) ==
  [spritesheet |->
     [width |-> cv.width, height |-> cv.height,
      frameWidth |-> frameSize, frameHeight |-> frameSize,
      columns |-> numFrames, rows |-> numDirs * numVariants],
   animations |->
     << [name |-> "walk", frameCount |-> numFrames,
         frameDuration |-> Rat(WALK_ANIMATION.duration, numFrames),
         totalDuration |-> WALK_ANIMATION.duration, looping |-> TRUE] >>,
   variants |->
     [i \in 1..numVariants |->
        [name |-> BODY_VARIANTS[i].name, rowOffset |-> (i - 1) * numDirs,
         rowCount |-> numDirs]],
   directions |->
     [i \in 1..numDirs |->
        [name |-> DIRECTIONS[i].name, rowIndex |-> numDirs - i]]]

\* variant of Metadata whose row offsets are multiples of the wrong count
MetadataByVariants(cv) ==
  [spritesheet |->
     [width |-> cv.width, height |-> cv.height,
      frameWidth |-> frameSize, frameHeight |-> frameSize,
      columns |-> numFrames, rows |-> numDirs * numVariants],
   animations |->
     << [name |-> "walk", frameCount |-> numFrames,
         frameDuration |-> Rat(WALK_ANIMATION.duration, numFrames),
         totalDuration |-> WALK_ANIMATION.duration, looping |-> TRUE] >>,
   variants |->
     [i \in 1..numVariants |->
        [name |-> BODY_VARIANTS[i].name,
         rowOffset |-> (i - 1) * numVariants, rowCount |-> numDirs]],
   directions |->
     [i \in 1..numDirs |->
        [name |-> DIRECTIONS[i].name, rowIndex |-> i - 1]]]

\* the metadata object
Metadata(cv) ==
  [spritesheet |->
     [width |-> cv.width, height |-> cv.height,
      frameWidth |-> frameSize, frameHeight |-> frameSize,
      columns |-> numFrames, rows |-> numDirs * numVariants],
   animations |->
     << [name |-> "walk", frameCount |-> numFrames,
         frameDuration |-> Rat(WALK_ANIMATION.duration, numFrames),
         totalDuration |-> WALK_ANIMATION.duration, looping |-> TRUE] >>,
   variants |->
     [i \in 1..numVariants |->
        [name |-> BODY_VARIANTS[i].name, rowOffset |-> (i - 1) * numDirs,
         rowCount |-> numDirs]],
   directions |->
     [i \in 1..numDirs |->
        [name |-> DIRECTIONS[i].name, rowIndex |-> i - 1]]]

ExportEnd ==
  /\ pc = "restore"
  /\ scale' = RestoreRootScale(scale, saved)
  /\ meshScale' = RestoreMeshScale(meshScale)
  /\ visible' = RestoreLines(RestoreSkeleton(RestoreGrid(visible, saved),
                                             saved), saved)
  /\ background' = saved.prevBackground
  /\ metadata' = Metadata(canvas)
  /\ bakeOutcome' = "completed"
  /\ pc' = "idle"
  /\ UNCHANGED <<uiVars, currentFrame, animationTime, rotation, varIdx,
                 dirIdx, frameIdx, saved, offCamera, canvas, bakeEntry,
                 posed, rendered, flipVars, loopVars, buildVars, clipVars>>

Surfaces == {"ok", "noWebGL", "no2d"}

ClipNames == {"Walk", "Idle"}

Next ==
  \/ AnimateTick
  \/ \E name \in ClipNames : SwitchClip(name)
  \/ \E idx \in 0..(numVariants - 1) : SetVariant(idx)
  \/ ToggleSkin
  \/ \E surface \in Surfaces : ExportBegin(surface)
  \/ ExportFrame
  \/ ExportEnd

Spec == Init /\ [][Next]_vars

TypeOK ==
  /\ currentAnimation \in ClipNames
  /\ pc \in {"idle", "loop", "restore"}
  /\ DOMAIN rotation = boneObjects
  /\ DOMAIN visible = Drawables

(***************************************************************************)
(* SpecTime: the animation loop over more than one period of either clip.  *)
(***************************************************************************)
NextTime ==
  \/ AnimateLong
  \/ \E name \in ClipNames : SwitchClip(name)
  \/ \E idx \in 0..(numVariants - 1) : SetVariant(idx)

SpecTime == Init /\ [][NextTime]_vars

(***************************************************************************)
(* SpecFlip: the copy loops applied to read-back buffers of bounded cells  *)
(* and of the shipped cell size.                                           *)
(***************************************************************************)
MarkerColours == {<<255, 0, 0, 255>>, <<1, 2, 3, 4>>, <<0, 255, 0, 128>>}

\* transparent black everywhere except the pixel at column mx, scanline my
MarkedBuffer(size, mx, my, colour) ==
  [i \in 0..(size * size * 4 - 1) |->
     IF i \div 4 = my * size + mx THEN colour[(i % 4) + 1] ELSE 0]

\* every byte different
RampBuffer(size) == [i \in 0..(size * size * 4 - 1) |-> i]

TestBuffers(size) ==
  IF size <= MaxFlipSize
    THEN {RampBuffer(size)} \cup
         {MarkedBuffer(size, mx, my, colour) :
            mx \in 0..(size - 1), my \in 0..(size - 1),
            colour \in MarkerColours}
    ELSE {MarkedBuffer(size, mx, my, <<1, 2, 3, 4>>) :
            mx \in {0, size - 1}, my \in {0, size - 1}}

InitFlip ==
  /\ InitMain
  /\ flipSize \in (1..MaxFlipSize) \cup {frameSize}
  /\ pixelBuffer \in TestBuffers(flipSize)
  /\ imageData = <<>>
  /\ BuildOff
  /\ ClipOff
  /\ LoopOff

\* the "Write to composite canvas (flip Y)" loop of exportSpritesheet
Composite ==
  /\ imageData = <<>>
  /\ imageData' = FlipY(pixelBuffer, flipSize)
  /\ UNCHANGED <<uiVars, currentFrame, animationTime, sceneVars, bakeVars,
                 posed, rendered, flipSize, pixelBuffer, buildVars, loopVars,
                 clipVars>>

\* the copy loop of updatePixelView, run on every tick of the pixel view
PixelView ==
  /\ imageData' = FlipYPixelView(pixelBuffer, flipSize)
  /\ UNCHANGED <<uiVars, currentFrame, animationTime, sceneVars, bakeVars,
                 posed, rendered, flipSize, pixelBuffer, buildVars, loopVars,
                 clipVars>>

NextFlip == Composite \/ PixelView

SpecFlip == InitFlip /\ [][NextFlip]_vars

(***************************************************************************)
(* SpecBuild: the two forEach loops of the scene effect that build the     *)
(* bone hierarchy, applied to SAMPLE_SKELETON.bones and to every skeleton  *)
(* definition of up to MaxBones bones whose i-th bone carries the name of  *)
(* the i-th sample bone and any parent: null, an earlier bone, itself, a   *)
(* later bone, or a name no bone has.                                      *)
(***************************************************************************)
\* a parent name that no bone of any candidate carries
NoSuchBone == "ghost"

CandidateNames == {SAMPLE_SKELETON[i].name : i \in 1..MaxBones}

CandidateParents == {"null", NoSuchBone} \cup CandidateNames

Skeletons ==
  {SAMPLE_SKELETON} \cup
  UNION {{[i \in 1..n |-> [name |-> SAMPLE_SKELETON[i].name, parent |-> par[i]]] :
            par \in [1..n -> CandidateParents]} : n \in 1..MaxBones}

InitBuild ==
  /\ InitMain
  /\ flipSize = 0
  /\ pixelBuffer = <<>>
  /\ imageData = <<>>
  /\ bones \in Skeletons
  /\ buildPc = "bones"
  /\ boneIdx = 0
  /\ boneParent = <<>>
  /\ sphereList = <<>>
  /\ bodyMeshList = <<>>
  /\ boneLineList = <<>>
  /\ ClipOff
  /\ LoopOff

\* boneObjects[boneData.name] = bone
PutBone(objs, name, holder) ==
  [b \in DOMAIN objs \cup {name} |-> IF b = name THEN holder ELSE objs[b]]

\* const parentBone = boneData.parent ? boneObjects[boneData.parent] : null;
\* if (parentBone) parentBone.add(bone) else boneMeshes.add(bone).
\* known: the keys of boneObjects at that moment, the bone itself included.
\* Object3D.add refuses to add an object to itself and leaves it unattached.
\* (HolderAlwaysGroup: the variant that hangs every bone on the group.)
HolderAlwaysGroup(boneData, known) == "boneMeshes"

Holder(boneData, known) ==
  IF boneData.parent # "null" /\ boneData.parent \in known
    THEN IF boneData.parent = boneData.name THEN "none" ELSE boneData.parent
    ELSE "boneMeshes"

\* variant of AddSphere that gives the root bone no debug sphere
AddSphereUnlessRoot(list, boneData) ==
  IF boneData.parent = "null" THEN list ELSE Append(list, boneData.name)

\* bone.add(sphere); skeletonMeshes.push(sphere)
AddSphere(list, boneData) == Append(list, boneData.name)

\* const bodyMesh = createBodyPartMesh(boneData.name); if (bodyMesh) { ... }
AddBodyMesh(list, boneData) ==
  IF boneData.name \in BODY_PARTS THEN Append(list, boneData.name) ELSE list

\* one iteration of SAMPLE_SKELETON.bones.forEach (lines 591-622)
BuildBone ==
  /\ buildPc = "bones"
  /\ boneIdx < Len(bones)
  /\ LET boneData == bones[boneIdx + 1]
     IN /\ boneParent' =
             PutBone(boneParent, boneData.name,
                     Holder(boneData, DOMAIN boneParent \cup {boneData.name}))
        /\ sphereList' = AddSphere(sphereList, boneData)
        /\ bodyMeshList' = AddBodyMesh(bodyMeshList, boneData)
  /\ boneIdx' = boneIdx + 1
  /\ buildPc' = IF boneIdx + 1 = Len(bones) THEN "lines" ELSE "bones"
  /\ UNCHANGED <<bones, boneLineList>>
  /\ UNCHANGED <<uiVars, currentFrame, animationTime, sceneVars, bakeVars,
                 posed, rendered, flipVars, loopVars, clipVars>>

\* the second forEach (lines 629-652): one THREE.Line, added to the parent,
\* for every bone whose parent is a key of the finished boneObjects
RECURSIVE LinesFrom(_, _, _)
LinesFrom(bs, objs, i) ==
  IF i > Len(bs) THEN <<>>
  ELSE IF bs[i].parent # "null" /\ bs[i].parent \in DOMAIN objs
    THEN <<(<<bs[i].parent, bs[i].name>>)>> \o LinesFrom(bs, objs, i + 1)
    ELSE LinesFrom(bs, objs, i + 1)

BuildLines ==
  /\ buildPc = "lines"
  /\ boneLineList' = LinesFrom(bones, boneParent, 1)
  /\ buildPc' = "done"
  /\ UNCHANGED <<bones, boneIdx, boneParent, sphereList, bodyMeshList>>
  /\ UNCHANGED <<uiVars, currentFrame, animationTime, sceneVars, bakeVars,
                 posed, rendered, flipVars, loopVars, clipVars>>

NextBuild == BuildBone \/ BuildLines

SpecBuild == InitBuild /\ [][NextBuild]_vars

(***************************************************************************)
(* SpecClip: the frame selection and pose evaluation of animate, and the   *)
(* frame loop of exportSpritesheet, applied to a clip object: the shipped  *)
(* clips and every clip of up to MaxClipFrames frames of up to MaxEntries  *)
(* entries, an entry naming a bone of the skeleton or a name that is not a *)
(* key of boneObjects.  The clip of zero frames is among them.             *)
(***************************************************************************)
\* a name that is not a key of boneObjects
UnknownBone == "tail"

Entries ==
  {[bone |-> "chest", rotation |-> <<10, 0, 0>>],
   [bone |-> UnknownBone, rotation |-> <<0, -20, 5>>]}

CandidateFrames == UNION {[1..n -> Entries] : n \in 0..MaxEntries}

CandidateClips ==
  {WALK_ANIMATION, IDLE_ANIMATION} \cup
  {[name |-> "Candidate", duration |-> 1000, frames |-> fs] :
     fs \in UNION {[1..n -> CandidateFrames] : n \in 0..MaxClipFrames}}

InitClip ==
  /\ InitMain
  /\ flipSize = 0
  /\ pixelBuffer = <<>>
  /\ imageData = <<>>
  /\ BuildOff
  /\ LoopOff
  /\ animClip \in CandidateClips
  /\ animTime = 0
  /\ animPose = BuiltRotation
  /\ frameIndex = NoFrame
  /\ animPosed = NoFrame
  /\ animCells = NoFrame

\* Math.floor((t / anim.duration) * anim.frames.length) % anim.frames.length:
\* with anim.frames.length = 0 the product is 0 and 0 % 0 is NaN
SelectFrame(t, clip) ==
  IF Len(clip.frames) = 0 THEN NaN ELSE FrameIndex(t, clip)

\* const frame = anim.frames[frameIndex]; if (!frame) return;
\* anim.frames[NaN] is undefined
FrameExists(clip, idx) == idx + 1 \in DOMAIN clip.frames

\* the body of animate on a clip object: select, then reset and apply
ClipAnimate ==
  /\ animCells = NoFrame
  /\ animTime + TickMs <= MaxClipTicks * TickMs
  /\ animTime' = animTime + TickMs
  /\ frameIndex' = SelectFrame(animTime', animClip)
  /\ IF FrameExists(animClip, frameIndex')
       THEN /\ animPose' = ApplyPose(animPose,
                                    animClip.frames[frameIndex' + 1])
            /\ animPosed' = frameIndex'
       ELSE UNCHANGED <<animPose, animPosed>>
  /\ UNCHANGED <<animClip, animCells>>
  /\ UNCHANGED <<uiVars, currentFrame, animationTime, sceneVars, bakeVars,
                 posed, rendered, flipVars, loopVars, buildVars>>

\* exportSpritesheet on a clip object, lines 350-354: numFrames =
\* anim.frames.length; the loops have not run yet
ClipExportBegin ==
  /\ animCells = NoFrame
  /\ animCells' = 0
  /\ UNCHANGED <<animClip, animTime, animPose, frameIndex, animPosed>>
  /\ UNCHANGED <<uiVars, currentFrame, animationTime, sceneVars, bakeVars,
                 posed, rendered, flipVars, loopVars, buildVars>>

\* one iteration of for (frameIdx = 0; frameIdx < numFrames; frameIdx++),
\* inside the variant and direction loops: numVariants * numDirs * numFrames
\* iterations in all, the frames in index order
ClipExportFrame ==
  /\ animCells # NoFrame
  /\ animCells < numVariants * numDirs * Len(animClip.frames)
  /\ animPose' = ApplyPose(animPose,
                           animClip.frames[(animCells % Len(animClip.frames)) + 1])
  /\ animPosed' = animCells % Len(animClip.frames)
  /\ animCells' = animCells + 1
  /\ UNCHANGED <<animClip, animTime, frameIndex>>
  /\ UNCHANGED <<uiVars, currentFrame, animationTime, sceneVars, bakeVars,
                 posed, rendered, flipVars, loopVars, buildVars>>

NextClip == ClipAnimate \/ ClipExportBegin \/ ClipExportFrame

SpecClip == InitClip /\ [][NextClip]_vars

(***************************************************************************)
(* SpecLoop: the two requestAnimationFrame loops (animate of the scene     *)
(* effect, pixelAnimate of the pixel-view effect), the effects' cleanups,  *)
(* the handlers and the bake as tasks of the browser's event loop.  A task *)
(* runs to completion; a frame calls the callbacks that were pending when  *)
(* it began, in the order in which they were requested.  A state change of *)
(* a click handler is rendered, and its effects are run, before the next   *)
(* task.                                                                   *)
(***************************************************************************)
\* ids of the callbacks in a list
Handles(queue) == {queue[i].id : i \in DOMAIN queue}

\* The handle a requestAnimationFrame call returns: one that no pending
\* callback and no variable of a live closure holds.  The code only stores a
\* handle and passes it to cancelAnimationFrame, so the least such number
\* stands for it.
FreshHandle(queue, held) ==
  CHOOSE h \in 1..(Len(queue) + Cardinality(held) + 1) :
    /\ h \notin Handles(queue) \cup held
    /\ \A k \in 1..(h - 1) : k \in Handles(queue) \cup held

\* id = requestAnimationFrame(fn).  torn: the effect run whose closure fn is
\* has been cleaned up; clip: the currentAnimation that closure captured
Request(queue, id, fn, clip) ==
  Append(queue, [id |-> id, fn |-> fn, torn |-> FALSE, clip |-> clip])

\* variant of Cancel that removes nothing
CancelNone(queue, id) == queue

\* cancelAnimationFrame(id)
Cancel(queue, id) == SelectSeq(queue, LAMBDA cb : cb.id # id)

\* the closures of a cleaned-up effect run: whatever they still have pending
\* belongs to a torn-down loop
Teardown(queue, fn) ==
  [i \in DOMAIN queue |->
     IF queue[i].fn = fn THEN [queue[i] EXCEPT !.torn = TRUE] ELSE queue[i]]

\* cleanup of the scene effect: cancelAnimationFrame(animationId)
SceneCleanup(queue) == Teardown(Cancel(queue, animationId), "animate")

\* cleanup of the pixel-view effect, which exists when the effect got past
\* its early return: cancelAnimationFrame(pixelAnimId)
PixelCleanup(queue) ==
  IF showPixelView
    THEN Teardown(Cancel(queue, pixelAnimId), "pixelAnimate")
    ELSE queue

\* pixelRenderer.render(scene, pixelCamera) of updatePixelView
PixelRendered == Observe("pixel", rotation, scale, meshScale, visible,
                         background)

InitLoop ==
  /\ InitMain
  /\ flipSize = 0
  /\ pixelBuffer = <<>>
  /\ imageData = <<>>
  /\ BuildOff
  /\ ClipOff
  /\ showPixelView = FALSE
  /\ mounted = TRUE
  /\ animationId = FreshHandle(<<>>, {})
  /\ rafQueue = Request(<<>>, animationId, "animate", "Walk")
  /\ pixelAnimId = NoHandle
  /\ frameCallbacks = <<>>

\* pending callbacks of animate
Ticks(queue) == SelectSeq(queue, LAMBDA cb : cb.fn = "animate")

\* variant of FrameBegin in which a frame may begin while exportSpritesheet
\* is between two of its statements
FrameBeginAnytime ==
  /\ frameCallbacks = <<>>
  /\ rafQueue # <<>>
  /\ animationTime + Len(Ticks(rafQueue)) * TickMs <= MaxTicks * TickMs
  /\ frameCallbacks' = rafQueue
  /\ rafQueue' = <<>>
  /\ UNCHANGED <<uiVars, currentFrame, animationTime, sceneVars, bakeVars,
                 posed, rendered, flipVars, buildVars, clipVars,
                 showPixelView, mounted, animationId, pixelAnimId>>

\* the browser begins a frame: the pending callbacks become its list
FrameBegin ==
  /\ pc = "idle"
  /\ frameCallbacks = <<>>
  /\ rafQueue # <<>>
  /\ animationTime + Len(Ticks(rafQueue)) * TickMs <= MaxTicks * TickMs
  /\ frameCallbacks' = rafQueue
  /\ rafQueue' = <<>>
  /\ ForgetCall
  /\ UNCHANGED <<uiVars, currentFrame, animationTime, sceneVars, pc, posed,
                 rendered, flipVars, buildVars, clipVars, showPixelView,
                 mounted, animationId, pixelAnimId>>

\* the frame calls animate.  A closure of a cleaned-up effect run would pose
\* and render the scene of that run, which is no longer the one on screen.
AnimateCallback ==
  /\ frameCallbacks # <<>>
  /\ Head(frameCallbacks).fn = "animate"
  /\ LET cb == Head(frameCallbacks)
         id == FreshHandle(rafQueue \o Tail(frameCallbacks), {pixelAnimId})
     IN /\ frameCallbacks' = Tail(frameCallbacks)
        /\ rafQueue' =
             IF cb.torn
               THEN Teardown(Request(rafQueue, id, "animate", cb.clip),
                             "animate")
               ELSE Request(rafQueue, id, "animate", cb.clip)
        /\ animationTime' = animationTime + TickMs
        /\ currentFrame' = FrameIndex(animationTime', AnimOf(cb.clip))
        /\ IF cb.torn
             THEN UNCHANGED <<animationId, rotation, scale, meshScale, posed,
                              rendered>>
             ELSE /\ animationId' = id
                  /\ rotation' = AnimateRotation(rotation, cb.clip,
                                                 animationTime')
                  /\ scale' = AnimateScale(scale, cb.clip, animationTime',
                                           currentVariantRef)
                  /\ meshScale' = AnimateMeshScale(meshScale, cb.clip,
                                                   animationTime',
                                                   currentVariantRef)
                  /\ posed' = AnimatePosed(posed, cb.clip, animationTime')
                  /\ rendered' = AnimateRendered(rendered, rotation, scale,
                                                 meshScale, visible,
                                                 background, cb.clip,
                                                 animationTime',
                                                 currentVariantRef)
  /\ UNCHANGED <<uiVars, visible, background, bakeVars, flipVars, buildVars,
                 clipVars, showPixelView, mounted, pixelAnimId>>

\* the frame calls pixelAnimate
PixelCallback ==
  /\ frameCallbacks # <<>>
  /\ Head(frameCallbacks).fn = "pixelAnimate"
  /\ LET cb == Head(frameCallbacks)
         id == FreshHandle(rafQueue \o Tail(frameCallbacks), {animationId})
     IN /\ frameCallbacks' = Tail(frameCallbacks)
        /\ rafQueue' =
             IF cb.torn
               THEN Teardown(Request(rafQueue, id, "pixelAnimate", cb.clip),
                             "pixelAnimate")
               ELSE Request(rafQueue, id, "pixelAnimate", cb.clip)
        /\ pixelAnimId' = IF cb.torn THEN pixelAnimId ELSE id
        /\ rendered' = IF cb.torn THEN rendered ELSE PixelRendered
  /\ UNCHANGED <<uiVars, currentFrame, animationTime, sceneVars, bakeVars,
                 posed, flipVars, buildVars, clipVars, showPixelView, mounted,
                 animationId>>

\* Walk / Idle onClick, then (for another clip) the cleanups of the scene
\* effect and of the pixel-view effect, then the two effects in that order:
\* the scene effect builds the scene and calls animate(), the pixel-view
\* effect calls pixelAnimate()
LoopSwitchClip(name) ==
  /\ pc = "idle"
  /\ frameCallbacks = <<>>
  /\ mounted
  /\ currentAnimation' = name
  /\ ForgetCall
  /\ IF name = currentAnimation
       THEN /\ animationTime' = 0
            /\ UNCHANGED <<currentFrame, sceneVars, posed, rendered, rafQueue,
                           animationId, pixelAnimId>>
       ELSE LET cleaned == PixelCleanup(SceneCleanup(rafQueue))
                id == FreshHandle(cleaned, {})
                ticking == Request(cleaned, id, "animate", name)
                pixelId == FreshHandle(ticking, {})
            IN /\ animationId' = id
               /\ animationTime' = TickMs
               /\ currentFrame' = FrameIndex(TickMs, AnimOf(name))
               /\ rotation' = AnimateRotation(BuiltRotation, name, TickMs)
               /\ scale' = AnimateScale(BuiltScale, name, TickMs,
                                        currentVariantRef)
               /\ meshScale' = AnimateMeshScale(BuiltMeshScale, name, TickMs,
                                                currentVariantRef)
               /\ visible' = BuiltVisible
               /\ background' = BuiltBackground
               /\ posed' = AnimatePosed(posed, name, TickMs)
               /\ IF showPixelView
                    THEN /\ pixelAnimId' = pixelId
                         /\ rafQueue' = Request(ticking, pixelId,
                                                "pixelAnimate", name)
                         /\ rendered' = Observe("pixel", rotation', scale',
                                                meshScale', visible',
                                                background')
                    ELSE /\ pixelAnimId' = pixelAnimId
                         /\ rafQueue' = ticking
                         /\ rendered' = AnimateRendered(rendered,
                                           BuiltRotation, BuiltScale,
                                           BuiltMeshScale, BuiltVisible,
                                           BuiltBackground, name, TickMs,
                                           currentVariantRef)
  /\ UNCHANGED <<currentVariant, currentVariantRef, showSkin, pc, flipVars,
                 buildVars, clipVars, showPixelView, mounted, frameCallbacks>>

\* Pixel View checkbox onChange: setShowPixelView(checked), then the
\* pixel-view effect: its cleanup when it was on, pixelAnimate() when it is on
TogglePixelView ==
  /\ pc = "idle"
  /\ frameCallbacks = <<>>
  /\ mounted
  /\ showPixelView' = ~showPixelView
  /\ IF showPixelView
       THEN /\ rafQueue' = PixelCleanup(rafQueue)
            /\ UNCHANGED <<pixelAnimId, rendered>>
       ELSE LET id == FreshHandle(rafQueue, {animationId})
            IN /\ pixelAnimId' = id
               /\ rafQueue' = Request(rafQueue, id, "pixelAnimate",
                                      currentAnimation)
               /\ rendered' = PixelRendered
  /\ ForgetCall
  /\ UNCHANGED <<currentAnimation, currentVariant, currentVariantRef, showSkin,
                 currentFrame, animationTime, sceneVars, pc, posed, flipVars,
                 buildVars, clipVars, mounted, animationId, frameCallbacks>>

\* the component unmounts: the cleanups of its effects run
Unmount ==
  /\ pc = "idle"
  /\ frameCallbacks = <<>>
  /\ mounted
  /\ mounted' = FALSE
  /\ rafQueue' = PixelCleanup(SceneCleanup(rafQueue))
  /\ ForgetCall
  /\ UNCHANGED <<uiVars, currentFrame, animationTime, sceneVars, pc, posed,
                 rendered, flipVars, buildVars, clipVars, showPixelView,
                 animationId, pixelAnimId, frameCallbacks>>

\* Export Spritesheet onClick
LoopExportBegin ==
  /\ frameCallbacks = <<>>
  /\ mounted
  /\ ExportBegin("ok")

NextLoop ==
  \/ FrameBegin
  \/ AnimateCallback
  \/ PixelCallback
  \/ \E name \in ClipNames : LoopSwitchClip(name)
  \/ TogglePixelView
  \/ Unmount
  \/ LoopExportBegin
  \/ ExportFrame
  \/ ExportEnd

SpecLoop == InitLoop /\ [][NextLoop]_vars

(***************************************************************************)
(* Properties.                                                             *)
(***************************************************************************)
\* exportSpritesheet returns undefined on every path and logs nothing: the
\* only signal a caller can observe is an exception
Reported == bakeOutcome = "threw"

Aborted == bakeOutcome \in {"threw", "returned"}

Completed == bakeOutcome = "completed"

\* C1: when the offscreen renderer or the composite canvas's 2D context
\* cannot be acquired, exportSpritesheet leaves the root scale, the body-mesh
\* scales, the bone rotations, the visibility flags and the background as
\* they were at entry, and the failure is reported to the caller.
C1_AbortUntouchedAndReported == Aborted => (Snapshot = bakeEntry /\ Reported)

\* C2: after a completed bake the root bone's scale and every body mesh's
\* scale are the values they had when the bake began.
C2_ScalesRestored ==
  Completed => /\ scale["root"] = bakeEntry.scale["root"]
               /\ \A m \in bodyMeshes : meshScale[m] = bakeEntry.meshScale[m]

\* C3: after a completed bake the grid helper's visibility, every debug
\* marker's visibility, every bone-connector line's visibility and the scene
\* background equal their values at bake entry.
C3_VisibilityRestored ==
  Completed => /\ visible[gridHelper] = bakeEntry.visible[gridHelper]
               /\ \A m \in skeletonMeshes :
                    visible[m] = bakeEntry.visible[m]
               /\ \A l \in boneLines : visible[l] = bakeEntry.visible[l]
               /\ background = bakeEntry.background

\* C4: when exportSpritesheet returns from a completed bake, every bone's
\* rotation equals its rotation at bake entry.
C4_RotationsRestored ==
  Completed => \A b \in boneObjects : rotation[b] = bakeEntry.rotation[b]

\* the cells of an atlas of the canvas's size, by origin
AtlasCells(cv) ==
  {<<c * frameSize, r * frameSize>> :
     c \in 0..((cv.width \div frameSize) - 1),
     r \in 0..((cv.height \div frameSize) - 1)}

PutOrigins(cv) == {<<cv.puts[i].x, cv.puts[i].y>> : i \in DOMAIN cv.puts}

\* C5: the atlas is frameCount*cellSize wide and
\* variantCount*directionCount*cellSize high; every cell the baker writes
\* lies inside the atlas, no two (variant, direction, frame) triples share a
\* cell, the triple (v, d, f) is in column f, the rows of variant v are the
\* contiguous block v*directionCount .. v*directionCount+directionCount-1
\* in direction order, and a completed bake has written every cell of the
\* atlas exactly once.
C5_AtlasLayout ==
  pc # "idle" \/ Completed =>
    /\ canvas.width = numFrames * frameSize
    /\ canvas.height = numVariants * numDirs * frameSize
    /\ \A i \in DOMAIN canvas.puts :
         LET p == canvas.puts[i] IN
           /\ p.x >= 0 /\ p.x + frameSize <= canvas.width
           /\ p.y >= 0 /\ p.y + frameSize <= canvas.height
           /\ p.x \div frameSize = p.frameIdx /\ p.x % frameSize = 0
           /\ p.y % frameSize = 0
           /\ (p.y \div frameSize) \div numDirs = p.varIdx
           /\ (p.y \div frameSize) % numDirs = p.dirIdx
    /\ Cardinality(PutOrigins(canvas)) = Len(canvas.puts)
    /\ Completed =>
         /\ PutOrigins(canvas) = AtlasCells(canvas)
         /\ Len(canvas.puts) = Cardinality(AtlasCells(canvas))

C5_Witness ==
  /\ Completed
  /\ Len(canvas.puts) = 96
  /\ \E i \in DOMAIN canvas.puts :
       canvas.puts[i] = [x |-> 448, y |-> 704, varIdx |-> 2, dirIdx |-> 3,
                         frameIdx |-> 7]

\* the rows a variant block of the metadata declares
BlockRows(v) == v.rowOffset..(v.rowOffset + v.rowCount - 1)

\* C6: the variant blocks of the metadata do not overlap and together are
\* exactly the rows 0..rows-1, rows = variantCount*directionCount and
\* columns = frameCount; for the shipped data that is 8 columns, 12 rows and
\* 3 blocks of 4 rows at offsets 0, 4, 8.
C6_MetadataTiles ==
  Completed =>
    /\ metadata.spritesheet.rows = numVariants * numDirs
    /\ metadata.spritesheet.columns = numFrames
    /\ \A r \in 0..(metadata.spritesheet.rows - 1) :
         Cardinality({i \in DOMAIN metadata.variants :
                        r \in BlockRows(metadata.variants[i])}) = 1
    /\ \A i \in DOMAIN metadata.variants :
         BlockRows(metadata.variants[i]) \subseteq
           0..(metadata.spritesheet.rows - 1)
    /\ metadata.spritesheet.columns = 8
    /\ metadata.spritesheet.rows = 12
    /\ [i \in DOMAIN metadata.variants |-> metadata.variants[i].rowOffset]
         = <<0, 4, 8>>
    /\ [i \in DOMAIN metadata.variants |-> metadata.variants[i].rowCount]
         = <<4, 4, 4>>

C6_Witness ==
  /\ Completed
  /\ Len(metadata.variants) = 3
  /\ metadata.spritesheet.width = 512
  /\ metadata.spritesheet.height = 768

\* C7: the copy loop stores the read-back pixel at column x, scanline y in
\* column x, row size-1-y of the cell, all four channels unchanged, for
\* every x and y of the cell, and the image has exactly the buffer's bytes.
C7_VerticalFlip ==
  imageData # <<>> =>
    /\ DOMAIN imageData = DOMAIN pixelBuffer
    /\ \A x \in 0..(flipSize - 1), y \in 0..(flipSize - 1), c \in 0..3 :
         imageData[((flipSize - 1 - y) * flipSize + x) * 4 + c]
           = pixelBuffer[(y * flipSize + x) * 4 + c]

\* a marked pixel of the first scanline has landed in the last row
C7_Witness ==
  /\ imageData # <<>>
  /\ flipSize >= 2
  /\ pixelBuffer[0] # 0
  /\ pixelBuffer[(flipSize - 1) * flipSize * 4] = 0
  /\ imageData[(flipSize - 1) * flipSize * 4] = pixelBuffer[0]
  /\ imageData[0] = 0

\* the rotation frame lists for bone b, or zero when it lists none
ListedRotation(frame, b) ==
  IF \E i \in DOMAIN frame : frame[i].bone = b
    THEN frame[CHOOSE i \in DOMAIN frame : frame[i].bone = b].rotation
    ELSE ZeroRotation

\* C8: after a frame of a clip has been applied, by the tick or by the
\* baker, every bone the frame lists has the listed rotation and every
\* other bone has rotation (0, 0, 0), whatever the rotations were before.
C8_ResetThenApply ==
  posed.clip # "none" =>
    \A b \in boneObjects :
      rotation[b] = ListedRotation(AnimOf(posed.clip).frames[posed.frame + 1], b)

\* the baker has posed a walk frame over an idle pose: the chest, rotated at
\* entry and not listed by the walk frame, is back at zero
C8_Witness ==
  /\ pc = "loop"
  /\ posed = [clip |-> "Walk", frame |-> 0]
  /\ bakeEntry.rotation["chest"] = <<0, 5, 0>>
  /\ rotation["chest"] = ZeroRotation
  /\ rotation["hip_L"] = <<-24, 0, 0>>

\* C9: applying the same frame of the same clip a second time leaves every
\* bone's rotation as the first application left it.
C9_PoseIdempotent ==
  \A name \in ClipNames :
    \A i \in DOMAIN AnimOf(name).frames :
      LET frame == AnimOf(name).frames[i]
          once == ApplyPose(rotation, frame)
      IN ApplyPose(once, frame) = once

\* the bones hold a non-rest pose that a frame application produced
C9_Witness ==
  /\ posed = [clip |-> "Walk", frame |-> 3]
  /\ rotation["thigh_R"] = <<42, 0, 0>>
  /\ rotation["chest"] = ZeroRotation

\* C10: after a tick at elapsed time t > 0 the selected frame is an integer
\* in 0..frameCount-1, it is the frame whose slot of duration/frameCount
\* contains the phase of t within the clip's period, and the tick has posed
\* the bones with it.
C10_FrameIndexInRange ==
  animationTime > 0 =>
    LET anim == AnimOf(currentAnimation)
        n == Len(anim.frames)
        phase == animationTime % anim.duration
    IN /\ currentFrame \in 0..(n - 1)
       /\ currentFrame * anim.duration <= phase * n
       /\ phase * n < (currentFrame + 1) * anim.duration
       /\ posed = [clip |-> currentAnimation, frame |-> currentFrame]

\* the walk clip has wrapped around: the second period plays frame 0
C10_Witness ==
  /\ currentAnimation = "Walk"
  /\ animationTime >= WALK_ANIMATION.duration
  /\ currentFrame = 0
  /\ posed = [clip |-> "Walk", frame |-> 0]

\* C11: frame selection is periodic with period clip.duration: for every
\* elapsed time t the loop reaches and for both shipped clips, the frame
\* selected at t is the frame selected at t + duration.
C11_FramePeriodic ==
  \A name \in ClipNames :
    FrameIndex(animationTime, AnimOf(name))
      = FrameIndex(animationTime + AnimOf(name).duration, AnimOf(name))

\* the loop is in the middle of a period, on a frame other than the first
C11_Witness ==
  /\ currentAnimation = "Walk"
  /\ animationTime = 63 * TickMs
  /\ currentFrame = 4
  /\ FrameIndex(animationTime + WALK_ANIMATION.duration, WALK_ANIMATION) = 4

\* C12: from one state to the next the elapsed animation time never
\* decreases, except on a switch to the other clip; no other event (pressing
\* the button of the clip already playing, changing the variant, toggling
\* the skin, baking) resets it.
C12_ElapsedMonotonic ==
  [][animationTime' >= animationTime \/ currentAnimation' # currentAnimation]_vars

\* C13 (as stated): at every render, in the tick and in every bake
\* iteration, for every body-part proxy the element-wise product of the root
\* bone's scale and the proxy's scale is exactly (1, 1, 1).
C13_ProductExactlyOne ==
  rendered.by # "none" =>
    \A proxy \in {rendered.meshScale[m] : m \in bodyMeshes} :
      WorldScale(rendered.scale["root"], proxy) = UnitScale

\* C13 (amended): at every render, in the tick and in every bake iteration,
\* the root bone's scale is (scaleXZ, scaleY, scaleXZ) of one variant, every
\* body-part proxy's scale is (1/scaleXZ, 1/scaleY, 1/scaleXZ) as Numbers,
\* and each component of their element-wise product is 1 up to the rounding
\* of one Number multiplication: it is 1 or 1 - 2^-53, and it is exactly 1 on
\* every axis unless the variant is tall.
C13_ProductOneRounded ==
  rendered.by # "none" =>
    \E i \in DOMAIN BODY_VARIANTS :
      /\ rendered.scale["root"]
           = <<NumberOf[BODY_VARIANTS[i].scaleXZ],
               NumberOf[BODY_VARIANTS[i].scaleY],
               NumberOf[BODY_VARIANTS[i].scaleXZ]>>
      /\ DOMAIN rendered.meshScale = bodyMeshes
      /\ \A proxy \in {rendered.meshScale[m] : m \in bodyMeshes} :
           /\ proxy = <<ReciprocalOf[BODY_VARIANTS[i].scaleXZ],
                        ReciprocalOf[BODY_VARIANTS[i].scaleY],
                        ReciprocalOf[BODY_VARIANTS[i].scaleXZ]>>
           /\ \A k \in 1..3 :
                WorldScale(rendered.scale["root"], proxy)[k]
                  \in {One, BelowOne}
           /\ BODY_VARIANTS[i].name # "tall"
                => WorldScale(rendered.scale["root"], proxy) = UnitScale

\* the bake renders the tall variant: the X and Z products are 1 - 2^-53
C13_Witness ==
  /\ rendered.by = "offscreen"
  /\ pc = "loop"
  /\ rendered.scale["root"] = VariantScale(BODY_VARIANTS[1])
  /\ \A m \in bodyMeshes :
       WorldScale(rendered.scale["root"], rendered.meshScale[m])
         = <<BelowOne, One, BelowOne>>

\* the bones of a definition whose parent is neither null nor an earlier bone
Misparented(bs) ==
  {i \in 1..Len(bs) :
     /\ bs[i].parent # "null"
     /\ bs[i].parent \notin {bs[j].name : j \in 1..(i - 1)}}

C17_TwentyBones ==
  (bones = SAMPLE_SKELETON /\ buildPc = "done") =>
    /\ Cardinality(DOMAIN boneParent) = 20
    /\ Cardinality({b \in DOMAIN boneParent : boneParent[b] = "boneMeshes"}) = 1
    /\ Len(sphereList) = Len(bones)

\* C17 (amended): building the sample skeleton produces exactly 21 bone
\* nodes, one per bone of SAMPLE_SKELETON; exactly one of them, the bone with
\* null parent, is a root; and there are 21 debug markers, one per bone.
C17_TwentyOneBones ==
  (bones = SAMPLE_SKELETON /\ buildPc = "done") =>
    /\ Cardinality(DOMAIN boneParent) = 21
    /\ DOMAIN boneParent = boneObjects
    /\ {b \in DOMAIN boneParent : boneParent[b] = "boneMeshes"}
         = {bones[i].name : i \in {j \in 1..Len(bones) : bones[j].parent = "null"}}
    /\ Cardinality({b \in DOMAIN boneParent : boneParent[b] = "boneMeshes"}) = 1
    /\ Len(sphereList) = 21
    /\ \A b \in DOMAIN boneParent :
         Cardinality({k \in 1..Len(sphereList) : sphereList[k] = b}) = 1

\* the sample skeleton has been built
C17_Witness ==
  /\ bones = SAMPLE_SKELETON
  /\ buildPc = "done"
  /\ boneIdx = 21
  /\ Len(sphereList) = 21

\* a skeleton definition as the build expects it: one bone without parent,
\* and every other bone's parent defined earlier in the list
WellFormed(bs) ==
  /\ Misparented(bs) = {}
  /\ Cardinality({i \in 1..Len(bs) : bs[i].parent = "null"}) = 1

\* following boneParent from b reaches the scene group within n steps
RECURSIVE ReachesGroup(_, _, _)
ReachesGroup(objs, b, n) ==
  IF b = "boneMeshes" THEN TRUE
  ELSE IF n = 0 \/ b \notin DOMAIN objs THEN FALSE
  ELSE ReachesGroup(objs, objs[b], n - 1)

\* C18: after the build of a skeleton definition, the tree of bone nodes
\* mirrors the definition's parent relation: every bone with parent P hangs
\* on P's node, the bone without parent is the only node hung on the scene
\* group, the name-to-node map has one entry per bone, and every node
\* reaches the scene group by parent links (one acyclic tree).
C18_TreeMirrorsParents ==
  (buildPc = "done" /\ WellFormed(bones)) =>
    /\ DOMAIN boneParent = {bones[i].name : i \in 1..Len(bones)}
    /\ Cardinality(DOMAIN boneParent) = Len(bones)
    /\ \A i \in 1..Len(bones) :
         boneParent[bones[i].name]
           = IF bones[i].parent = "null" THEN "boneMeshes" ELSE bones[i].parent
    /\ Cardinality({b \in DOMAIN boneParent : boneParent[b] = "boneMeshes"}) = 1
    /\ \A b \in DOMAIN boneParent : ReachesGroup(boneParent, b, Len(bones))

\* the sample skeleton's tree is built: a leaf hangs on its parent, and the
\* connectors are one per non-root bone
C18_Witness ==
  /\ buildPc = "done"
  /\ bones = SAMPLE_SKELETON
  /\ WellFormed(bones)
  /\ boneParent["foot_L"] = "shin_L"
  /\ boneParent["root"] = "boneMeshes"
  /\ Len(boneLineList) = 20

RECURSIVE KnownEntries(_, _)
KnownEntries(frame, i) ==
  IF i > Len(frame) THEN <<>>
  ELSE IF frame[i].bone \in boneObjects
    THEN <<frame[i]>> \o KnownEntries(frame, i + 1)
    ELSE KnownEntries(frame, i + 1)

\* C16: a frame entry naming a bone that is absent from the skeleton is
\* ignored: once a frame has been applied, by the tick or by the baker, the
\* rotations are those of the skeleton's bones only (no entry was created,
\* nothing failed) and they equal the pose of the same frame without its
\* entries for absent bones.
C16_UnknownBoneIgnored ==
  animPosed # NoFrame =>
    /\ DOMAIN animPose = boneObjects
    /\ animPose
         = ApplyPose(BuiltRotation,
                     KnownEntries(animClip.frames[animPosed + 1], 1))

\* the tick has applied a frame that names an absent bone and then a real one
C16_Witness ==
  /\ animPosed = 0
  /\ frameIndex = 0
  /\ Len(animClip.frames[1]) = 2
  /\ animClip.frames[1][1].bone = UnknownBone
  /\ animClip.frames[1][2].bone = "chest"
  /\ animPose["chest"] = animClip.frames[1][2].rotation

\* the (variant, direction, frame) cell written by the latest bake iteration
LastPut == canvas.puts[Len(canvas.puts)]

\* C19 (as stated): in every bake iteration the offscreen camera stands at
\* the direction's camera position, all three components of it, and looks at
\* a point of the vertical axis whose height comes from the variant's camera
\* height, not at the world origin.
C19_CameraAtDirectionPos ==
  Len(canvas.puts) > 0 =>
    /\ offCamera.position = DIRECTIONS[LastPut.dirIdx + 1].pos
    /\ offCamera.lookAt
         = <<0, BODY_VARIANTS[LastPut.varIdx + 1].cameraY - 1, 0>>
    /\ offCamera.lookAt # <<0, 0, 0>>

\* C19 (amended): in every bake iteration the offscreen camera stands at the
\* direction's x and z and at the variant's camera height (the direction's
\* own y component is not used), and looks at the point of the vertical axis
\* 0.1 below the variant's camera height, not at the world origin.
C19_CameraAtVariantHeight ==
  Len(canvas.puts) > 0 =>
    /\ offCamera.position
         = <<DIRECTIONS[LastPut.dirIdx + 1].pos[1],
             BODY_VARIANTS[LastPut.varIdx + 1].cameraY,
             DIRECTIONS[LastPut.dirIdx + 1].pos[3]>>
    /\ offCamera.lookAt
         = <<0, BODY_VARIANTS[LastPut.varIdx + 1].cameraY - 1, 0>>
    /\ offCamera.lookAt # <<0, 0, 0>>

\* the bake is rendering the short variant from the right: the camera is at
\* (4, 1.2, 0), not at the direction's (4, 1.5, 0)
C19_Witness ==
  /\ pc = "loop"
  /\ Len(canvas.puts) > 0
  /\ LastPut.varIdx = 2
  /\ LastPut.dirIdx = 1
  /\ LastPut.frameIdx = 3
  /\ offCamera.position = <<40, 12, 0>>
  /\ DIRECTIONS[2].pos = <<40, 15, 0>>

\* the k-th triple (k from 0) of the loops, variants outermost, frames
\* innermost
Triple(k) ==
  [varIdx |-> k \div (numDirs * numFrames),
   dirIdx |-> (k \div numFrames) % numDirs,
   frameIdx |-> k % numFrames]

\* C20: a bake whose loops have begun runs to completion with nothing in
\* between: its iterations are the variantCount*directionCount*frameCount
\* triples, each once, in index order (variants, then directions, then frames
\* 0..frameCount-1); and in each iteration the pose is applied before the
\* render and the cell is written after it, so the render of an iteration
\* shows the pose of its own frame index under the scales of its own variant.
C20_BakeInOrder ==
  (pc # "idle" \/ Completed) =>
    /\ Len(canvas.puts) <= numVariants * numDirs * numFrames
    /\ \A k \in DOMAIN canvas.puts :
         /\ canvas.puts[k].varIdx = Triple(k - 1).varIdx
         /\ canvas.puts[k].dirIdx = Triple(k - 1).dirIdx
         /\ canvas.puts[k].frameIdx = Triple(k - 1).frameIdx
    /\ pc = "loop" =>
         /\ Len(canvas.puts) < numVariants * numDirs * numFrames
         /\ Triple(Len(canvas.puts))
              = [varIdx |-> varIdx, dirIdx |-> dirIdx, frameIdx |-> frameIdx]
         /\ bakeOutcome = "running"
    /\ (pc = "restore" \/ Completed) =>
         Len(canvas.puts) = numVariants * numDirs * numFrames
    /\ Len(canvas.puts) > 0 =>
         /\ rendered.by = "offscreen"
         /\ \A b \in boneObjects :
              rendered.rotation[b]
                = ListedRotation(WALK_ANIMATION.frames[LastPut.frameIdx + 1], b)
         /\ rendered.scale["root"]
              = VariantScale(BODY_VARIANTS[LastPut.varIdx + 1])
         /\ \A m \in bodyMeshes :
              rendered.meshScale[m] = InvScale(BODY_VARIANTS[LastPut.varIdx + 1])

\* the bake is in its 50th iteration, (normal, back, frame 1), and the render
\* showed frame 1 of the walk, not the frame 0 of the iteration before
C20_Witness ==
  /\ pc = "loop"
  /\ Len(canvas.puts) = 50
  /\ LastPut.varIdx = 1 /\ LastPut.dirIdx = 2 /\ LastPut.frameIdx = 1
  /\ rendered.by = "offscreen"
  /\ rendered.rotation["thigh_L"] = <<99, 0, 0>>
  /\ rendered.rotation["thigh_L"]
       # ListedRotation(WALK_ANIMATION.frames[1], "thigh_L")

\* C21: every offscreen render of the bake sees the grid helper hidden, every
\* debug joint marker hidden, every bone-connector line hidden and the scene
\* background null, whatever these were when the bake began.
C21_BakeRendersBare ==
  rendered.by = "offscreen" =>
    /\ ~rendered.visible[gridHelper]
    /\ \A m \in skeletonMeshes : ~rendered.visible[m]
    /\ \A l \in boneLines : ~rendered.visible[l]
    /\ rendered.background = "null"

\* an offscreen render of a bake that began with the grid, the markers and the
\* lines all visible and the background opaque
C21_Witness ==
  /\ pc = "loop"
  /\ rendered.by = "offscreen"
  /\ Len(canvas.puts) > 0
  /\ bakeEntry.visible[gridHelper]
  /\ \A m \in skeletonMeshes : bakeEntry.visible[m]
  /\ \A l \in boneLines : bakeEntry.visible[l]
  /\ bakeEntry.background = BuiltBackground
  /\ ~rendered.visible[gridHelper]

\* a step of exportSpritesheet: nothing of the UI state, the clocks or the
\* frame scheduling changes, and the only render is the offscreen one
BakeStep ==
  /\ UNCHANGED <<uiVars, showPixelView, mounted, currentFrame, animationTime,
                 rafQueue, frameCallbacks, animationId, pixelAnimId>>
  /\ rendered' = rendered \/ rendered'.by = "offscreen"

\* a render of the animation tick or of the pixel view: it happens outside
\* any bake and reads the hierarchy as it stands there, with the background
\* in place and the bone lines shown
InteractiveRender ==
  /\ pc = "idle"
  /\ pc' = "idle"
  /\ rendered'.rotation = rotation'
  /\ rendered'.scale = scale'
  /\ rendered'.meshScale = meshScale'
  /\ rendered'.visible = visible'
  /\ rendered'.background = background'
  /\ rendered'.background # "null"
  /\ \A l \in boneLines : rendered'.visible[l]

LiveTicks == Ticks(rafQueue \o frameCallbacks)

\* the frame calls animate in this step
TickStep ==
  /\ frameCallbacks # <<>>
  /\ Head(frameCallbacks).fn = "animate"
  /\ frameCallbacks' = Tail(frameCallbacks)

\* the scene effect is cleaned up in this step: clip switch or unmount
TeardownStep ==
  mounted /\ (~mounted' \/ currentAnimation' # currentAnimation)

\* C23: a tick schedules exactly one successor; the cleanup of the scene
\* effect leaves no callback of the loop it tears down, so no tick of a
\* torn-down loop ever runs, and at most one animation loop is live at any
\* time (none after unmount).
C23_OneLiveLoop ==
  /\ Len(LiveTicks) <= 1
  /\ [][/\ Len(LiveTicks') <= 1
        /\ TickStep =>
             /\ ~Head(frameCallbacks).torn
             /\ Len(Ticks(rafQueue')) = Len(Ticks(rafQueue)) + 1
        /\ TeardownStep =>
             \A i \in DOMAIN rafQueue' : ~rafQueue'[i].torn
        /\ ~mounted' => LiveTicks' = <<>>]_vars

\* after a clip switch the new loop has ticked and has one tick pending
C23_Witness ==
  /\ mounted
  /\ currentAnimation = "Idle"
  /\ animationTime = 2 * TickMs
  /\ frameCallbacks = <<>>
  /\ Len(Ticks(rafQueue)) = 1
  /\ ~Head(Ticks(rafQueue)).torn

\* C24: in every reachable state every bone node other than the root has the
\* unit local scale: the tick, the variant selection and the bake write the
\* scale of the root bone only.
C24_OnlyRootScaled ==
  /\ DOMAIN scale = boneObjects
  /\ \A b \in boneObjects \ {"root"} : scale[b] = UnitScale

\* the tall variant was selected and ticked, and a bake has run all three
\* variants and restored: the root carries a non-unit scale
C24_Witness ==
  /\ Completed
  /\ Len(canvas.puts) = numVariants * numDirs * numFrames
  /\ currentVariantRef = 0
  /\ scale["root"] = VariantScale(BODY_VARIANTS[1])
  /\ scale["root"] # UnitScale

\* C25: whenever no bake is in flight the visibility flags agree with the
\* Skin checkbox: every body-part proxy is visible iff showSkin, every debug
\* marker is visible iff not showSkin; also for the hierarchy rebuilt by a
\* clip switch.
C25_VisibilityFollowsSkin ==
  pc = "idle" =>
    /\ \A m \in bodyMeshes : visible[m] = showSkin
    /\ \A m \in skeletonMeshes : visible[m] = ~showSkin

\* the cell a consumer cuts out of the sheet for variant v, direction d and
\* frame f (1-based table positions) by the metadata alone: its pixel origin
SliceOrigin(md, v, d, f) ==
  <<(f - 1) * md.spritesheet.frameWidth,
    (md.variants[v].rowOffset + md.directions[d].rowIndex)
      * md.spritesheet.frameHeight>>

\* C26: after a bake the metadata tables agree with the cells written: for
\* every cell the baker put for (variant, direction, frame), the variant's
\* rowOffset plus the direction's rowIndex is the row the baker used, the
\* rowIndex is below the variant's rowCount, the tables name that variant and
\* that direction, the directions are listed front, right, back, left, and
\* slicing by the tables yields exactly the origin the cell was put at.
C26_TablesMatchPixels ==
  Completed =>
    /\ Len(canvas.puts) = numVariants * numDirs * numFrames
    /\ [i \in DOMAIN metadata.directions |-> metadata.directions[i].name]
         = <<"front", "right", "back", "left">>
    /\ \A i \in DOMAIN canvas.puts :
         LET put == canvas.puts[i]
             v == metadata.variants[put.varIdx + 1]
             d == metadata.directions[put.dirIdx + 1]
         IN /\ v.rowOffset + d.rowIndex = RowIdx(put.varIdx, put.dirIdx)
            /\ (v.rowOffset + d.rowIndex) * frameSize = put.y
            /\ d.rowIndex < v.rowCount
            /\ v.name = BODY_VARIANTS[put.varIdx + 1].name
            /\ d.name = DIRECTIONS[put.dirIdx + 1].name
            /\ SliceOrigin(metadata, put.varIdx + 1, put.dirIdx + 1,
                           put.frameIdx + 1) = <<put.x, put.y>>

\* a completed bake: the last cell is short / left / frame 7, in row 11
C26_Witness ==
  /\ Completed
  /\ LastPut.varIdx = 2
  /\ LastPut.dirIdx = 3
  /\ LastPut.frameIdx = 7
  /\ LastPut.y = 11 * frameSize
  /\ metadata.variants[3].rowOffset = 8
  /\ metadata.directions[4].rowIndex = 3

====
